---- MODULE Spec2Model ----
(***************************************************************************)
(* Model of the macro playback engine of atari/runtime/player.py:          *)
(* MacroPlayer.run (the playback thread), the caller's stop/pause/resume,  *)
(* and the helpers the run is built from (_sleep_checked, _wait_if_paused, *)
(* perform_trigger, press_combo, the long-press timeline executor).        *)
(*                                                                         *)
(* The playback thread is a program counter `pc` with a stack `stk` of     *)
(* return labels: a helper is entered with Call and left with Return, the  *)
(* way the nested functions of run() call each other.  Times are integer   *)
(* milliseconds.  time.sleep(x) is taken to last exactly x.                *)
(***************************************************************************)
EXTENDS Integers, Sequences, FiniteSets, TLC

\* ---------------------------------------------------------------- constants
\* perform_trigger / KeyAction: _sleep_checked(0.005) after each modifier
ModSettle == 5
\* perform_trigger / KeyAction: _sleep_checked(0.020) before the click
ClickSettle == 20
\* click: _sleep_checked(0.01) between press and release
ClickHold == 10
\* press_combo: KEY_HOLD_TIME = 0.060
KEY_HOLD_TIME == 60
\* press_combo: AFTER_UP_DELAY = 0.005
AFTER_UP_DELAY == 5
\* press_combo, _press_hold_trigger, _release_hold_trigger: _sleep_checked(0.001)
KeyStep == 1
\* smooth_move_to(cx, cy, 0.05) before a click on an area
AreaMove == 50
\* _sleep_checked: chunk = min(0.01, remaining)
Chunk == 10
\* _wait_if_paused: time.sleep(0.05)
PausePoll == 50
\* WordAreaAction search: RETRY_DELAY = 0.12
RETRY_DELAY == 120
\* WordAreaAction search: ROUND_DELAY = 5.0
ROUND_DELAY == 5000

\* ------------------------------------------------------------------- bounds
\* how many API calls (stop / pause / resume) the caller makes in one run
MaxCalls == 2
\* how many 50 ms polls of the pause gate one run spends paused
MaxPolls == 2
\* the count of resolver attempts is kept up to this number (a search may go
\* on beyond it; the count then stays)
MaxTries == 4
\* how many passes of a run that is not cancelled are followed
MaxPasses == 4

\* ------------------------------------------------------------------ helpers
Min(a, b) == IF a < b THEN a ELSE b
Max(a, b) == IF a > b THEN a ELSE b
Range(s) == {s[i] : i \in DOMAIN s}

\* --------------------------------------------------------------- data model
\* models.Delay
Delay(mode, a, b) == [mode |-> mode, a |-> a, b |-> b]
Fixed(a) == Delay("fixed", a, a)

\* Delay.sample(): the set of values one call may return.  A range draws
\* uniformly from [lo, hi]; the model draws from the multiples of 5 ms in it.
DelaySample(d) ==
    IF d.mode = "range"
    THEN {t \in Min(d.a, d.b) .. Max(d.a, d.b) : t % 5 = 0}
    ELSE {Max(0, d.a)}

\* d.get(key, default) of a dict
DictGet(d, key, default) == IF key \in DOMAIN d THEN d[key] ELSE default

\* Delay.from_dict: mode = d.get("mode", "fixed"); a = float(d.get("a", 0.0));
\* b = float(d.get("b", 0.0)); a mode that is neither "fixed" nor "range" is
\* "fixed"
DelayFromDict(d) ==
    LET mode == DictGet(d, "mode", "fixed") IN
    Delay(IF mode \notin {"fixed", "range"} THEN "fixed" ELSE mode,
          DictGet(d, "a", 0), DictGet(d, "b", 0))

\* models.WaitAction
WaitAction(delay) == [type |-> "wait", delay |-> delay]

\* models.WaitEventAction: the text looked for, the time between two looks
\* (poll), and whether rect_global(base) is a rectangle of 2 by 2 or more
WaitEventAction(expected_text, poll, zone_ok) ==
    [type |-> "wait_event", expected_text |-> expected_text, poll |-> poll,
     zone_ok |-> zone_ok]

\* str(text or "").strip(), on the texts of the records of the model
Strip(text) == IF text \in {"", " ", "  "} THEN "" ELSE text

\* resolve_target_rect_global: no rectangle for a blank text (w_raw empty:
\* return None); else the text is on the screen or not
Resolves(text) == IF Strip(text) = "" THEN {FALSE} ELSE BOOLEAN

\* a trigger specification as normalize_trigger returns it
Trigger(kind, keys, mouse_button) ==
    [kind |-> kind, keys |-> keys, mouse_button |-> mouse_button]
\* models.DEFAULT_TRIGGER
DEFAULT_TRIGGER == Trigger("mouse", <<>>, "left")

\* models.KeyAction in normal press mode
KeyAction(kind, keys, mouse_button, multiplier, delay) ==
    [type |-> "key", kind |-> kind, keys |-> keys, mouse_button |-> mouse_button,
     multiplier |-> multiplier, delay |-> delay, press_mode |-> "normal",
     long_press |-> <<>>]

\* one entry of long_press["actions"] as _normalize_long_press_item returns it
LongItem(trigger, hold, activate_mode, start_delay) ==
    [trigger |-> trigger, hold |-> hold, activate_mode |-> activate_mode,
     start_delay |-> start_delay]

\* models.KeyAction in long press mode: what _key_long_action_items reads
KeyLong(items) ==
    [type |-> "key", kind |-> "keys", keys |-> <<>>, mouse_button |-> "none",
     multiplier |-> 1, delay |-> Fixed(0), press_mode |-> "long",
     long_press |-> items]

\* models.AreaAction; big: the rectangle is valid and wider and higher than 2
AreaAction(click, big, trigger, multiplier, delay) ==
    [type |-> "area", click |-> click, big |-> big, trigger |-> trigger,
     multiplier |-> multiplier, delay |-> delay]

\* models.BaseAreaAction
BaseAreaAction(click) == [type |-> "base", click |-> click]

\* models.WordAreaAction with click = False: the fields the search reads
WordAreaAction(word, search_infinite, search_max_tries, search_on_fail, on_fail_actions, on_fail_post_mode) ==
    [type |-> "word", word |-> word, search_infinite |-> search_infinite,
     search_max_tries |-> search_max_tries, search_on_fail |-> search_on_fail,
     on_fail_actions |-> on_fail_actions, on_fail_post_mode |-> on_fail_post_mode]

\* the modifier names of perform_trigger, press_combo, _press_hold_trigger
ModNames == {"Shift", "Ctrl", "Alt", "Meta"}
IsMod(k) == k \in ModNames
NotMod(k) == k \notin ModNames
IsCtrl(k) == k = "Ctrl"
IsAlt(k) == k = "Alt"
IsShift(k) == k = "Shift"
IsMeta(k) == k = "Meta"

\* mods_only = [k for k in keys if k in (...)]  (the order of the list is kept)
ModsOnly(keys) == SelectSeq(keys, IsMod)
\* mods.sort(key=mod_order): Ctrl, Alt, Shift, Meta (a stable sort)
SortedMods(keys) ==
    SelectSeq(keys, IsCtrl) \o SelectSeq(keys, IsAlt)
        \o SelectSeq(keys, IsShift) \o SelectSeq(keys, IsMeta)
Normals(keys) == SelectSeq(keys, NotMod)
Reverse(s) == [i \in 1..Len(s) |-> s[Len(s) + 1 - i]]
\* downs = mods + normals
Downs(keys) == SortedMods(keys) \o Normals(keys)
\* ups = reversed(normals) + reversed(mods)
Ups(keys) == Reverse(Normals(keys)) \o Reverse(SortedMods(keys))

\* _sample_delay_cfg(raw, default): the values one call may return
SampleCfg(d) ==
    IF d.mode = "range"
    THEN {t \in Min(d.a, d.b) .. Max(d.a, d.b) : t % 5 = 0}
    ELSE {d.a}

\* the entry of the plan for item i (index i - 1) when the previous item
\* ends at prev_end: one sample of the hold and, for from_start, of the start
PlanEntries(item, i, prev_end) ==
    {[index |-> i - 1, trigger |-> item.trigger, start_sec |-> st,
      end_sec |-> st + Max(0, h), hold_sec |-> Max(0, h), mode |-> item.activate_mode] :
        h \in SampleCfg(item.hold),
        st \in IF item.activate_mode = "from_start"
               THEN {Max(0, x) : x \in SampleCfg(item.start_delay)}
               ELSE {Max(0, prev_end)}}

RECURSIVE Plans(_, _, _)
\* the plans the loop over the items may build from item i on
Plans(items, i, prev_end) ==
    IF i > Len(items) THEN {<<>>}
    ELSE UNION {{<<p>> \o rest : rest \in Plans(items, i + 1, p.end_sec)} :
                    p \in PlanEntries(items[i], i, prev_end)}

\* events.append((start_sec, idx, 0, "start")); events.append((end_sec, idx, 1, "end"))
EventsOf(plan) ==
    [n \in 1..(2 * Len(plan)) |->
        LET p == plan[(n + 1) \div 2] IN
        IF n % 2 = 1 THEN <<p.start_sec, p.index, 0, "start">>
        ELSE <<p.end_sec, p.index, 1, "end">>]

\* a sort key that puts the kind of event before the item index
EventBeforeOrdFirst(e, f) ==
    \/ e[1] < f[1]
    \/ e[1] = f[1] /\ e[3] < f[3]
    \/ e[1] = f[1] /\ e[3] = f[3] /\ e[2] < f[2]

\* key=lambda e: (e[0], e[1], e[2]): e sorts before f
EventBefore(e, f) ==
    \/ e[1] < f[1]
    \/ e[1] = f[1] /\ e[2] < f[2]
    \/ e[1] = f[1] /\ e[2] = f[2] /\ e[3] < f[3]

RECURSIVE Insert(_, _)
\* e goes in front of the first event it sorts before (the sort is stable)
Insert(e, s) ==
    IF s = <<>> THEN <<e>>
    ELSE IF EventBefore(e, Head(s)) THEN <<e>> \o s
    ELSE <<Head(s)>> \o Insert(e, Tail(s))

RECURSIVE SortEvents(_)
\* events.sort(key=...)
SortEvents(s) ==
    IF s = <<>> THEN <<>>
    ELSE Insert(s[Len(s)], SortEvents(SubSeq(s, 1, Len(s) - 1)))

\* models.RepeatSettings
RepeatSettings(enabled, count, delay) ==
    [enabled |-> enabled, count |-> count, delay |-> delay]
NoRepeat == RepeatSettings(FALSE, 0, Fixed(0))

\* models.Record
Record(actions, repeat, move_mouse) ==
    [actions |-> actions, repeat |-> repeat, move_mouse |-> move_mouse]

\* The records the playback is checked on.
CtrlShiftClick == Trigger("mouse", <<"Shift", "Ctrl">>, "left")
Records ==
    { Record(<<WaitAction(Fixed(25))>>, NoRepeat, TRUE),
      Record(<<WaitAction(Delay("range", 0, 10)), WaitAction(Fixed(10))>>,
             RepeatSettings(TRUE, 2, Fixed(5)), TRUE),
      Record(<<AreaAction(TRUE, TRUE, CtrlShiftClick, 1, Fixed(0)),
               WaitAction(Fixed(10))>>, NoRepeat, TRUE),
      Record(<<AreaAction(TRUE, TRUE, Trigger("keys", <<"x", "Ctrl">>, "none"), 1, Fixed(5))>>,
             NoRepeat, TRUE),
      Record(<<KeyAction("keys", <<"x", "Ctrl">>, "none", 1, Fixed(10))>>, NoRepeat, FALSE),
      Record(<<KeyAction("mouse", <<"Ctrl", "Alt">>, "right", 2, Fixed(0))>>, NoRepeat, FALSE) }

\* The records the long press executor is checked on: a hold that ends when a
\* hold of no length begins, and a hold that begins inside another
LongRecords ==
    { Record(<<KeyLong(<<
          LongItem(Trigger("keys", <<"x", "Ctrl">>, "none"), Fixed(10), "after_prev", Fixed(0)),
          LongItem(Trigger("mouse", <<"Shift">>, "left"), Fixed(0), "from_start", Fixed(10))
        >>)>>, NoRepeat, FALSE),
      Record(<<KeyLong(<<
          LongItem(Trigger("keys", <<"a">>, "none"), Fixed(20), "after_prev", Fixed(0)),
          LongItem(Trigger("mouse", <<>>, "right"), Delay("range", 5, 10), "from_start", Fixed(5))
        >>)>>, NoRepeat, FALSE) }

\* The host.  windows: _is_windows(); bad: the key kb.press raises on ("none":
\* every key can be injected); bound: a window is bound and cannot be found
\* when a BaseAreaAction looks for it; stop_word: a stop word is configured and
\* OCR is available; lost: a window is bound and _resolve_runtime_base() finds
\* none when the run starts; start_index: self._start_index; ocr:
\* is_ocr_available() when the run starts; pynput: the import of the input
\* injection backend at the head of run() succeeds; exe: a window is bound and
\* _resolve_runtime_base() finds it whenever it looks
Host(windows, bad, bound, stop_word) ==
    [windows |-> windows, bad |-> bad, bound |-> bound, stop_word |-> stop_word,
     lost |-> FALSE, start_index |-> 0, ocr |-> TRUE, pynput |-> TRUE, exe |-> FALSE]

\* the reasons the user interface passes to stop()
StopReasons == {"stop button", "ESC"}
FinallyReason == "playback stopped"
\* the messages of the bound window check and of the stop-word worker
BaseReason == "bound window not found"
\* the message of the bound window check at the start of run()
LostReason == "bound window not found at start"
WordReason == "stop word found"
\* msg of an exhausted search: it names a.word
WordFailReason(word) == "word not found: " \o word
\* stop_msg of _apply_on_fail_post_mode
PostStopReason == "fail branch done, mode stop"
\* the message of the except handler of run()
FaultReason == "player fault"
\* the status messages that are no end reason: of a failed import of pynput,
\* of the stop-word worker, of a start without OCR, of the start of playback
PynputStatus == "pynput error"
WordStatus == "stop word found, stopping"
OcrStatus == "OCR not available"
StartedStatus == "playback started"

VARIABLES
    record,       \* self.record (only read by the run)
    env,          \* the host (see Host)
    pc,           \* playback thread: the place in run() or in a helper
    stk,          \* playback thread: return labels of the helpers entered
    rv,           \* playback thread: the value the last helper returned
    run,          \* run(): idx, start_index, cycles_left, done, total, ...
    fr,           \* locals of the helpers (remaining, the _mark_end arguments, ...)
    held,         \* Input Injector: the keys and buttons that are down
    stopEv,       \* self._stop   (threading.Event)
    pauseEv,      \* self._pause  (threading.Event; set = not paused)
    end_state,    \* self.end_state
    end_reason,   \* self.end_reason
    caller,       \* the calling thread: its place in stop() and what it passed
    wd,           \* the stop-word worker thread: its place and what it read
    lp,           \* locals of _execute_key_long_press_items
    sw,           \* _sw_lock, _sw_base, _sw_dpr and the two threads that use them
    calc,         \* a call of a function of models.py or geometry.py: argument, result
    g             \* history: what the claims measure

vars == <<record, env, pc, stk, rv, run, fr, held, stopEv, pauseEv, end_state,
          end_reason, caller, wd, lp, sw, calc, g>>
conf == <<record, env, sw, calc>>

\* ------------------------------------------------------- call / return
Call(target, ret) == pc' = target /\ stk' = <<ret>> \o stk
Return(v) == pc' = Head(stk) /\ stk' = Tail(stk) /\ rv' = v
Goto(l) == pc' = l /\ UNCHANGED stk

\* self._mark_end(state, reason) is entered by the playback thread
MarkEndCall(state, reason, ret) ==
    /\ fr' = [fr EXCEPT !.me_state = state, !.me_reason = reason]
    /\ Call("me_check", ret)

\* neither the caller nor the stop-word worker is inside a stop
NoStopInside == caller.pc = "idle" /\ wd.pc \in {"off", "loop", "ended"}

\* history of the writes of _mark_end
Wrote == [g EXCEPT !.writes = @ + 1]
\* history of the status channel: signals.status.emit(msg)
Said(h, msg) == [h EXCEPT !.status = @ \cup {msg}]
Recorded(reason) == [g EXCEPT !.rec = IF @ = <<>> THEN <<end_state, reason>> ELSE @]

\* _mark_end: the test that lets a writer in
MarkEndOpen(es) == es = "done"

\* ----------------------------------------------------------------- init
InitRun ==
    [idx |-> 0, start_index |-> 0, cycles_left |-> 0, infinite |-> FALSE,
     done |-> 0, total |-> 0, restart_from_beginning |-> FALSE,
     move_mouse_ready |-> FALSE, area_ok |-> FALSE, r_i |-> 0, base_area |-> "none"]

InitFr ==
    [remaining |-> 0, me_state |-> "", me_reason |-> "",
     sm_i |-> 0, sm_steps |-> 0, sm_sleep |-> 0,
     ptt_spec |-> DEFAULT_TRIGGER, ptt_reps |-> 0, ptt_i |-> 0, ptt_delay |-> Fixed(0),
     pt_spec |-> DEFAULT_TRIGGER, pt_i |-> 0, btn |-> "",
     pcb_keys |-> <<>>, pcb_i |-> 0, km_i |-> 0,
     max_tries |-> 0, attempt |-> 0, found |-> FALSE, in_i |-> 0,
     n_max |-> 0, n_attempt |-> 0]

\* req, slept, paused: the delay asked of the _sleep_checked last entered, the
\* time it has slept and the time the run has spent in pause polls since;
\* mid: what had been slept when the first of those polls began;
\* polls: pause polls of the run; stopInWait: self._stop was set while the
\* playback thread was inside the sleep of a top-level Wait; stopIdx: the
\* index of that Wait; lat, latPoll: time the playback thread spent in sleep
\* chunks and in pause polls after self._stop was set (a poll that begins
\* after the stop counts from its beginning, one the stop falls into counts
\* whole when it ends); writes: assignments to self.end_state so far;
\* rec: the (end_state, end_reason) pair as it stood when a _mark_end first
\* finished writing; normalEnd: run() reached its finally block with no stop
\* requested or under way and nothing recorded; finished: how many times
\* signals.finished was emitted; last, disp: the index of the top-level action
\* dispatched last and how many were dispatched (up to MaxPasses times the
\* length of the record); tries, backs: resolver attempts and completed retry
\* backoffs of the search round under way; fail: the on-fail policy the
\* exhausted round before it applied;
\* post: <<mode, index>> of the post mode applied since the last dispatch;
\* since: the value of post at the last dispatch; passes: passes begun;
\* restarts: passes that ended by a request to repeat from the start; gaps:
\* inter-cycle delays begun (passes, restarts, gaps count up to MaxPasses)
InitG ==
    [req |-> 0, slept |-> 0, paused |-> 0, mid |-> 0, polls |-> 0,
     stopInWait |-> FALSE, stopIdx |-> 0, lat |-> 0, latPoll |-> 0,
     writes |-> 0, rec |-> <<>>, normalEnd |-> FALSE, finished |-> 0,
     last |-> -1, disp |-> 0, tries |-> 0, backs |-> 0,
     fail |-> "", post |-> <<>>, since |-> <<>>, passes |-> 0,
     restarts |-> 0, gaps |-> 0, blank |-> FALSE, sub |-> <<>>, status |-> {},
     seen |-> {}]

\* the executor before it is entered.  on: it is running; plan, events: its
\* two lists; i: the event the loop is at; active: the keys of active_holds;
\* h: the item being pressed or released; k: the key that step is at;
\* clock, paused: the time since started_at and the part of it spent in pause
\* polls; log: the events emitted, with the unpaused time u of each;
\* exc: an exception is propagating; result: the value being returned
InitLp ==
    [on |-> FALSE, plan |-> <<>>, events |-> <<>>, i |-> 0, active |-> {},
     h |-> 0, k |-> 0, clock |-> 0, paused |-> 0, log |-> <<>>,
     exc |-> FALSE, result |-> TRUE]

\* __init__ lines 69-71: the lock is free, _sw_base None, _sw_dpr 1.0; m and w
\* are the places of the playback thread in _sw_set_snapshot and of the worker
\* in its locked read, arg the arguments of the call, b and d the worker's
\* locals; last is the pair of the last call that wrote both fields, at the
\* value of last when the worker took the lock, written every pair written
InitSw ==
    [lock |-> "free", base |-> "none", dpr |-> 1, m |-> "out", arg |-> <<"none", 1>>,
     w |-> "off", b |-> "none", d |-> 1,
     last |-> <<"none", 1>>, at |-> <<"none", 1>>, written |-> {}]

\* no function of models.py or geometry.py is being evaluated
InitCalc == [at |-> "off"]

\* the player before run() for a record and a host out of the given sets, the
\* playback thread at the given place
Idle(recs, hosts, place) ==
    /\ record \in recs
    /\ env \in hosts
    /\ held = {}
    /\ pc = place
    /\ stk = <<>>
    /\ rv = TRUE
    /\ run = InitRun
    /\ fr = InitFr
    /\ stopEv = FALSE
    /\ pauseEv = TRUE
    /\ end_state = "done"
    /\ end_reason = ""
    /\ caller = [pc |-> "idle", reason |-> "", calls |-> 0]
    /\ wd = [pc |-> "off", sw_base |-> FALSE, b |-> FALSE]
    /\ lp = InitLp
    /\ sw = InitSw
    /\ g = InitG

\* the state before run(): that player, and no function under evaluation
StartAt(recs, hosts, place) == Idle(recs, hosts, place) /\ calc = InitCalc

\* the state run() starts in
Start(recs, hosts) == StartAt(recs, hosts, "start")

Init == Start(Records, {Host(w, "none", FALSE, FALSE) : w \in BOOLEAN})

shared == <<stopEv, pauseEv, end_state, end_reason>>

\* the action the main loop is at
CurAction == record.actions[run.idx + 1]

\* the playback thread is inside the _sleep_checked of a top-level Wait
InWaitSleep ==
    pc \in {"sc", "sc_gate", "sc_sleep", "wp", "wp_pause", "wp_ret"} /\ "wait_ret" \in Range(stk)

\* _sleep_checked(sec) is entered: remaining = max(0.0, sec); f is fr with
\* what the calling step assigned to its own locals, h is g with what the
\* calling step added to the history
SleepCallG(f, h, sec, ret) ==
    /\ fr' = [f EXCEPT !.remaining = Max(0, sec)]
    /\ g' = [h EXCEPT !.req = Max(0, sec), !.slept = 0, !.paused = 0, !.mid = 0]
    /\ Call("sc", ret)
SleepCallF(f, sec, ret) == SleepCallG(f, g, sec, ret)
SleepCall(sec, ret) == SleepCallF(fr, sec, ret)

\* ------------------------------------------------------ run(): main loop
\* _estimate_action_progress_item
EstimateItem(a) ==
    IF a.type = "key"
    THEN IF a.press_mode = "long" THEN Len(a.long_press) ELSE Max(1, a.multiplier)
    ELSE IF a.type \in {"wait", "wait_event"} THEN 1 ELSE 0

RECURSIVE EstimateExtra(_)
\* _estimate_extra_progress_items
EstimateExtra(seq) ==
    IF seq = <<>> THEN 0 ELSE EstimateItem(Head(seq)) + EstimateExtra(Tail(seq))

\* an entry of record.actions that action_from_dict raises on (a delay whose
\* a or b is no number: float() raises)
Malformed == [type |-> "malformed"]

\* has_ocr_actions, and the status messages of a start that reaches the loop:
\* without OCR and with OCR actions the notice, then "playback started"
HasOcrActions ==
    env.stop_word \/ \E i \in DOMAIN record.actions : record.actions[i].type \in {"word", "wait_event"}
StartNotes == {StartedStatus} \cup (IF ~env.ocr /\ HasOcrActions THEN {OcrStatus} ELSE {})

\* a start that falls back to the virtual desktop when the bound window is
\* not found
\* start_index = self._start_index; if start_index < 0 or start_index >=
\* len(actions): start_index = 0
StartIndex(i) == IF i < 0 \/ i >= Len(record.actions) THEN 0 ELSE i

RunStartBlind ==
    /\ pc = "start"
    /\ run' = [run EXCEPT
          !.start_index = IF env.start_index >= Len(record.actions)
                          THEN 0 ELSE env.start_index,
          !.total = Max(1, EstimateExtra(record.actions)),
          !.move_mouse_ready = record.move_mouse,
          !.area_ok = TRUE,
          !.cycles_left = record.repeat.count,
          !.infinite = record.repeat.enabled /\ record.repeat.count = 0]
    /\ wd' = [wd EXCEPT !.sw_base = TRUE,
                        !.pc = IF env.stop_word /\ env.ocr THEN "loop" ELSE @]
    /\ Goto("loop_top")
    /\ g' = [g EXCEPT !.status = @ \cup StartNotes]
    /\ UNCHANGED <<conf, lp, held, rv, fr, shared, caller>>

\* run() up to the main loop.  A bound window that _resolve_runtime_base()
\* does not find: _mark_end("error", msg).  Else base_area is the window or the
\* virtual desktop (a host with a screen: a valid rectangle),
\* _sw_set_snapshot(base_area, dpr), _start_stopword_worker() (the worker runs
\* when a stop word is set and OCR is there), start index, total, cycles_left,
\* infinite
RunStart ==
    /\ pc = "start"
    /\ IF ~env.pynput
       THEN /\ Goto("finally")
            /\ g' = Said([g EXCEPT !.finished = @ + 1], PynputStatus)
            /\ UNCHANGED <<run, wd, fr>>
       ELSE IF env.lost
       THEN /\ MarkEndCall("error", LostReason, "start_err")
            /\ UNCHANGED <<run, wd, g>>
       ELSE IF \E i \in DOMAIN record.actions : record.actions[i] = Malformed
       THEN /\ wd' = [wd EXCEPT !.sw_base = TRUE,
                                !.pc = IF env.stop_word /\ env.ocr THEN "loop" ELSE @]
            /\ Goto("except")
            /\ UNCHANGED <<run, fr, g>>
       ELSE /\ run' = [run EXCEPT
                  !.start_index = StartIndex(Max(0, env.start_index)),
                  !.total = Max(1, EstimateExtra(record.actions)),
                  !.move_mouse_ready = record.move_mouse,
                  !.area_ok = TRUE,
                  !.base_area = IF env.exe \/ env.bound THEN "live" ELSE "virtual",
                  !.cycles_left = record.repeat.count,
                  !.infinite = record.repeat.enabled /\ record.repeat.count = 0]
            /\ wd' = [wd EXCEPT !.sw_base = TRUE,
                                !.pc = IF env.stop_word /\ env.ocr THEN "loop" ELSE @]
            /\ Goto("loop_top")
            /\ g' = [g EXCEPT !.status = @ \cup StartNotes]
            /\ UNCHANGED fr
    /\ UNCHANGED <<conf, lp, held, rv, shared, caller>>

\* the bound window was not found at the start: status.emit(msg);
\* finished.emit(); return, which leaves the try through its finally block
StartErr ==
    /\ pc = "start_err"
    /\ Goto("finally")
    /\ g' = Said([g EXCEPT !.finished = @ + 1], LostReason)
    /\ UNCHANGED <<conf, wd, lp, held, rv, run, fr, shared, caller>>

\* LoopTop with passes after the first started at the first action
LoopTopFirst ==
    /\ pc = "loop_top"
    /\ IF stopEv
       THEN Goto("finally") /\ UNCHANGED <<run, g>>
       ELSE /\ g.passes < MaxPasses
            /\ run' = [run EXCEPT !.idx = IF g.passes = 0 THEN run.start_index ELSE 0]
            /\ g' = [g EXCEPT !.passes = @ + 1, !.seen = {}]
            /\ Goto("for_head")
    /\ UNCHANGED <<conf, wd, lp, held, rv, fr, shared, caller>>

\* while True: if self._stop.is_set(): break; a new pass starts at start_index
\* (cycle_num only numbers the "cycle start" message and is not kept; a run
\* that is not cancelled is followed for MaxPasses passes)
LoopTop ==
    /\ pc = "loop_top"
    /\ IF stopEv
       THEN Goto("finally") /\ UNCHANGED <<run, g>>
       ELSE /\ g.passes < MaxPasses
            /\ run' = [run EXCEPT !.idx = run.start_index]
            /\ g' = [g EXCEPT !.passes = @ + 1, !.seen = {}]
            /\ Goto("for_head")
    /\ UNCHANGED <<conf, wd, lp, held, rv, fr, shared, caller>>

\* for idx in range(start_index, len(actions)): the three ways out of the pass
ForLeaves == run.idx >= Len(record.actions) \/ run.restart_from_beginning \/ stopEv

ForExit ==
    /\ pc = "for_head"
    /\ ForLeaves
    /\ Goto("pass_end")
    /\ UNCHANGED <<conf, wd, lp, held, rv, run, fr, shared, caller, g>>

\* the loop body is entered for an action of the given type
Dispatching(type) == pc = "for_head" /\ ~ForLeaves /\ CurAction.type = type

\* history: the action at run.idx is dispatched
Dispatched ==
    [g EXCEPT !.last = run.idx, !.since = g.post, !.post = <<>>, !.sub = <<>>,
              !.seen = @ \cup {run.idx},
              !.disp = Min(@ + 1, MaxPasses * Len(record.actions))]

\* isinstance(a, WaitAction): t = a.delay.sample(); _sleep_checked(t)
DispatchWait ==
    /\ Dispatching("wait")
    /\ \E t \in DelaySample(CurAction.delay) : SleepCallG(fr, Dispatched, t, "wait_ret")
    /\ UNCHANGED <<conf, wd, lp, held, rv, run, shared, caller>>

\* if not _sleep_checked(t): break; done += 1; progress; continue
WaitRet ==
    /\ pc = "wait_ret"
    /\ IF rv
       THEN /\ run' = [run EXCEPT !.done = @ + 1, !.idx = @ + 1]
            /\ Goto("for_head")
       ELSE Goto("pass_end") /\ UNCHANGED run
    /\ UNCHANGED <<conf, wd, lp, held, rv, fr, shared, caller, g>>

\* --------------------------------------- _wait_if_paused, _sleep_checked
\* time.perf_counter() moves on by t while the executor runs: a sleep chunk,
\* or a poll of the pause gate
Tick(l, t, poll) ==
    IF l.on THEN [l EXCEPT !.clock = @ + t, !.paused = IF poll THEN @ + t ELSE @]
    ELSE l

\* a pause gate that does not look at self._stop
WaitIfPausedDeaf ==
    /\ pc = "wp"
    /\ Goto("wp_pause")
    /\ UNCHANGED <<conf, wd, lp, held, rv, run, fr, shared, caller, g>>

\* a pause poll whose 50 ms are taken off the delay being slept
WaitIfPausedSleepLeaky ==
    /\ pc = "wp_sleep"
    /\ Goto("wp")
    /\ fr' = [fr EXCEPT !.remaining = Max(0, @ - PausePoll)]
    /\ g' = [g EXCEPT !.paused = @ + PausePoll,
                      !.latPoll = IF stopEv /\ @ = 0 THEN PausePoll ELSE @]
    /\ lp' = Tick(lp, PausePoll, TRUE)
    /\ UNCHANGED <<conf, wd, held, rv, run, shared, caller>>

\* a sleep that looks neither at self._stop nor at the pause gate
SleepCheckedDeaf ==
    /\ pc = "sc"
    /\ IF fr.remaining <= 0 THEN Return(TRUE) ELSE Goto("sc_sleep") /\ UNCHANGED rv
    /\ UNCHANGED <<conf, wd, lp, held, run, fr, shared, caller, g>>

\* _wait_if_paused reads the two events one after the other, and self._stop
\* once more for its result.
\* while not self._stop.is_set() ...: the first read of the loop test
WaitIfPaused ==
    /\ pc = "wp"
    /\ IF stopEv THEN Return(FALSE) ELSE Goto("wp_pause") /\ UNCHANGED rv
    /\ UNCHANGED <<conf, wd, lp, held, run, fr, shared, caller, g>>

\* ... and not self._pause.is_set(): the second read; the gate is open, or
\* a poll begins (the number of polls of a run that is not cancelled is capped)
WaitIfPausedGate ==
    /\ pc = "wp_pause"
    /\ IF pauseEv THEN Goto("wp_ret") /\ UNCHANGED g
       ELSE /\ stopEv \/ g.polls < MaxPolls
            /\ Goto("wp_sleep")
            /\ g' = [g EXCEPT !.polls = @ + 1,
                              !.mid = IF g.paused = 0 THEN g.slept ELSE @,
                              !.latPoll = IF stopEv THEN @ + PausePoll ELSE @]
    /\ UNCHANGED <<conf, wd, lp, held, rv, run, fr, shared, caller>>

\* time.sleep(0.05) inside _wait_if_paused
WaitIfPausedSleep ==
    /\ pc = "wp_sleep"
    /\ Goto("wp")
    /\ g' = [g EXCEPT !.paused = @ + PausePoll,
                      !.latPoll = IF stopEv /\ @ = 0 THEN PausePoll ELSE @]
    /\ lp' = Tick(lp, PausePoll, TRUE)
    /\ UNCHANGED <<conf, wd, held, rv, run, fr, shared, caller>>

\* return not self._stop.is_set()
WaitIfPausedRet ==
    /\ pc = "wp_ret"
    /\ Return(~stopEv)
    /\ UNCHANGED <<conf, wd, lp, held, run, fr, shared, caller, g>>

\* while remaining > 0: if stop: return False; if not _wait_if_paused(): ...
SleepChecked ==
    /\ pc = "sc"
    /\ IF fr.remaining <= 0 THEN Return(TRUE)
       ELSE IF stopEv THEN Return(FALSE)
       ELSE Call("wp", "sc_gate") /\ UNCHANGED rv
    /\ UNCHANGED <<conf, wd, lp, held, run, fr, shared, caller, g>>

\* if not _wait_if_paused(): return False
SleepGate ==
    /\ pc = "sc_gate"
    /\ IF rv THEN Goto("sc_sleep") /\ UNCHANGED rv ELSE Return(FALSE)
    /\ UNCHANGED <<conf, wd, lp, held, run, fr, shared, caller, g>>

\* chunk = min(0.01, remaining); time.sleep(chunk); remaining -= elapsed
SleepChunk ==
    /\ pc = "sc_sleep"
    /\ LET chunk == Min(Chunk, fr.remaining) IN
         /\ fr' = [fr EXCEPT !.remaining = @ - chunk]
         /\ g' = [g EXCEPT !.slept = @ + chunk,
                           !.lat = IF stopEv THEN @ + chunk ELSE @]
         /\ lp' = Tick(lp, chunk, FALSE)
    /\ Goto("sc")
    /\ UNCHANGED <<conf, wd, held, rv, run, shared, caller>>

\* ---------------------------------------------------------- smooth_move_to
\* duration <= 0.001: the pointer jumps; else steps = max(1, int(duration * 120))
\* and step_sleep = duration / steps (whole milliseconds here)
MoveSteps(duration) == IF duration <= 1 THEN 0 ELSE Max(1, (duration * 120) \div 1000)
SmoothMoveCall(f, duration, ret) ==
    /\ fr' = [f EXCEPT !.sm_i = 1, !.sm_steps = MoveSteps(duration),
                       !.sm_sleep = IF MoveSteps(duration) = 0 THEN 0
                                    ELSE duration \div MoveSteps(duration)]
    /\ Call("sm", ret)

\* for i in range(1, steps + 1): if stop: return; if not _wait_if_paused(): return
SmoothMove ==
    /\ pc = "sm"
    /\ IF fr.sm_i > fr.sm_steps \/ stopEv THEN Return(TRUE)
       ELSE Call("wp", "sm_gate") /\ UNCHANGED rv
    /\ UNCHANGED <<conf, wd, lp, held, run, fr, shared, caller, g>>

\* mouse.position = (nx, ny); if not _sleep_checked(step_sleep): return
SmoothMoveGate ==
    /\ pc = "sm_gate"
    /\ IF rv THEN SleepCall(fr.sm_sleep, "sm_slept") /\ UNCHANGED rv
       ELSE Return(TRUE) /\ UNCHANGED <<fr, g>>
    /\ UNCHANGED <<conf, wd, lp, held, run, shared, caller>>

SmoothMoveSlept ==
    /\ pc = "sm_slept"
    /\ IF rv THEN Goto("sm") /\ fr' = [fr EXCEPT !.sm_i = @ + 1] /\ UNCHANGED rv
       ELSE Return(TRUE) /\ UNCHANGED fr
    /\ UNCHANGED <<conf, wd, lp, held, run, shared, caller, g>>

\* ------------------------------------------------------------------ click
ClickCall(btn, ret) == fr' = [fr EXCEPT !.btn = btn] /\ Call("click", ret)

\* mouse.press(b); _sleep_checked(0.01)
Click ==
    /\ pc = "click"
    /\ held' = held \cup {fr.btn}
    /\ SleepCall(ClickHold, "click_up")
    /\ UNCHANGED <<conf, wd, lp, rv, run, shared, caller>>

\* mouse.release(b)
ClickUp ==
    /\ pc = "click_up"
    /\ held' = held \ {fr.btn}
    /\ Return(TRUE)
    /\ UNCHANGED <<conf, wd, lp, run, fr, shared, caller, g>>

\* ------------------------------------------------------------ press_combo
PressComboCall(keys, ret) ==
    /\ fr' = [fr EXCEPT !.pcb_keys = keys, !.pcb_i = 1]
    /\ Call("pcb", ret)

\* the keys go down: one SendInput batch on Windows, else one by one with
\* _sleep_checked(0.001) after each; then _sleep_checked(KEY_HOLD_TIME)
PressComboDown ==
    /\ pc = "pcb"
    /\ LET downs == Downs(fr.pcb_keys) IN
       IF env.windows
       THEN /\ held' = held \cup Range(downs)
            /\ SleepCall(KEY_HOLD_TIME, "pcb_held")
       ELSE IF fr.pcb_i <= Len(downs)
       THEN /\ held' = held \cup {downs[fr.pcb_i]}
            /\ SleepCallF([fr EXCEPT !.pcb_i = @ + 1], KeyStep, "pcb")
       ELSE /\ held' = held
            /\ SleepCall(KEY_HOLD_TIME, "pcb_held")
    /\ UNCHANGED <<conf, wd, lp, rv, run, shared, caller>>

\* what press_combo lets go of when the hold was interrupted by a stop
ComboAbortUps(keys) == Range(Ups(keys))

\* if not _sleep_checked(KEY_HOLD_TIME): release every key and return;
\* else the keys go up (a batch on Windows, one by one elsewhere)
PressComboHeld ==
    /\ pc = "pcb_held"
    /\ IF ~rv
       THEN /\ held' = held \ ComboAbortUps(fr.pcb_keys)
            /\ Return(TRUE)
            /\ UNCHANGED <<fr, g>>
       ELSE IF env.windows
       THEN /\ held' = held \ Range(Ups(fr.pcb_keys))
            /\ SleepCall(AFTER_UP_DELAY, "pcb_done")
            /\ UNCHANGED rv
       ELSE /\ held' = held
            /\ fr' = [fr EXCEPT !.pcb_i = 1]
            /\ Goto("pcb_up")
            /\ UNCHANGED <<rv, g>>
    /\ UNCHANGED <<conf, wd, lp, run, shared, caller>>

\* for k in ups: _kbd_up(k); _sleep_checked(0.001); then _sleep_checked(AFTER_UP_DELAY)
PressComboUp ==
    /\ pc = "pcb_up"
    /\ LET ups == Ups(fr.pcb_keys) IN
       IF fr.pcb_i <= Len(ups)
       THEN /\ held' = held \ {ups[fr.pcb_i]}
            /\ SleepCallF([fr EXCEPT !.pcb_i = @ + 1], KeyStep, "pcb_up")
       ELSE /\ held' = held
            /\ SleepCall(AFTER_UP_DELAY, "pcb_done")
    /\ UNCHANGED <<conf, wd, lp, rv, run, shared, caller>>

PressComboDone ==
    /\ pc = "pcb_done"
    /\ Return(TRUE)
    /\ UNCHANGED <<conf, wd, lp, held, run, fr, shared, caller, g>>

\* -------------------------------------------------------- perform_trigger
PerformTriggerCall(f, spec, ret) ==
    /\ fr' = [f EXCEPT !.pt_spec = spec, !.pt_i = 1]
    /\ Call("pt", ret)

\* kind == "mouse": for mname in mods_only: if stop: return; _kbd_down(mname);
\* _sleep_checked(0.005).  After the loop: _sleep_checked(0.020)
PerformTriggerMouse ==
    /\ pc = "pt"
    /\ fr.pt_spec.kind = "mouse"
    /\ LET mods == ModsOnly(fr.pt_spec.keys) IN
       IF fr.pt_i <= Len(mods)
       THEN IF stopEv
            THEN Return(TRUE) /\ UNCHANGED <<held, fr, g>>
            ELSE /\ held' = held \cup {mods[fr.pt_i]}
                 /\ SleepCallF([fr EXCEPT !.pt_i = @ + 1], ModSettle, "pt")
                 /\ UNCHANGED rv
       ELSE /\ held' = held
            /\ SleepCall(ClickSettle, "pt_settled")
            /\ UNCHANGED rv
    /\ UNCHANGED <<conf, wd, lp, run, shared, caller>>

\* if not stop: _ensure_focus(); click(mb)
PerformTriggerSettled ==
    /\ pc = "pt_settled"
    /\ IF ~stopEv THEN ClickCall(fr.pt_spec.mouse_button, "pt_release")
       ELSE Goto("pt_release") /\ UNCHANGED fr
    /\ UNCHANGED <<conf, wd, lp, held, rv, run, shared, caller, g>>

\* for mname in reversed(mods_only): _kbd_up(mname); return
PerformTriggerRelease ==
    /\ pc = "pt_release"
    /\ held' = held \ Range(ModsOnly(fr.pt_spec.keys))
    /\ Return(TRUE)
    /\ UNCHANGED <<conf, wd, lp, run, fr, shared, caller, g>>

\* kind == "keys": press_combo(keys) is the last statement
PerformTriggerKeys ==
    /\ pc = "pt"
    /\ fr.pt_spec.kind = "keys"
    /\ fr' = [fr EXCEPT !.pcb_keys = fr.pt_spec.keys, !.pcb_i = 1]
    /\ Goto("pcb")
    /\ UNCHANGED <<conf, wd, lp, held, rv, run, shared, caller, g>>

\* -------------------------------------------------- perform_trigger_times
\* (every caller but the BaseArea click, which fires once, passes a delay)
PerformTriggerTimesCall(spec, times, delay, ret) ==
    /\ fr' = [fr EXCEPT !.ptt_spec = spec, !.ptt_reps = Max(1, times),
                        !.ptt_i = 0, !.ptt_delay = delay]
    /\ Call("ptt", ret)

\* for i in range(reps): if stop: return; t = delay.sample();
\* if t > 0 and not _sleep_checked(t): return; perform_trigger(spec)
PerformTriggerTimes ==
    /\ pc = "ptt"
    /\ IF fr.ptt_i >= fr.ptt_reps \/ stopEv
       THEN Return(TRUE) /\ UNCHANGED <<fr, g>>
       ELSE \E t \in DelaySample(fr.ptt_delay) :
              IF t > 0
              THEN SleepCall(t, "ptt_delayed") /\ UNCHANGED rv
              ELSE /\ PerformTriggerCall([fr EXCEPT !.ptt_i = @ + 1], fr.ptt_spec, "ptt")
                   /\ UNCHANGED <<rv, g>>
    /\ UNCHANGED <<conf, wd, lp, held, run, shared, caller>>

PerformTriggerTimesDelayed ==
    /\ pc = "ptt_delayed"
    /\ IF rv
       THEN /\ PerformTriggerCall([fr EXCEPT !.ptt_i = @ + 1], fr.ptt_spec, "ptt")
            /\ UNCHANGED rv
       ELSE Return(TRUE) /\ UNCHANGED fr
    /\ UNCHANGED <<conf, wd, lp, held, run, shared, caller, g>>

\* a step to the head of the loop that keeps the index
NextActionAgain == Goto("for_head") /\ UNCHANGED run

\* ------------------------------------------------ run(): AreaAction
NextAction == run' = [run EXCEPT !.idx = @ + 1] /\ Goto("for_head")

\* current_area = a.rect_global(base_area); move_mouse_ready = True;
\* if a.click and the area is big enough: smooth_move_to(cx, cy, 0.05)
DispatchArea ==
    /\ Dispatching("area")
    /\ IF CurAction.click /\ CurAction.big
       THEN /\ run' = [run EXCEPT !.area_ok = CurAction.big, !.move_mouse_ready = TRUE]
            /\ SmoothMoveCall(fr, AreaMove, "area_moved")
       ELSE /\ run' = [run EXCEPT !.area_ok = CurAction.big, !.move_mouse_ready = TRUE,
                                  !.idx = @ + 1]
            /\ Goto("for_head")
            /\ UNCHANGED fr
    /\ UNCHANGED <<conf, wd, lp, held, rv, shared, caller, g>>

\* perform_trigger_times(a.trigger, a.multiplier, a.delay)
AreaMoved ==
    /\ pc = "area_moved"
    /\ PerformTriggerTimesCall(CurAction.trigger, CurAction.multiplier,
                               CurAction.delay, "area_done")
    /\ UNCHANGED <<conf, wd, lp, held, rv, run, shared, caller, g>>

\* continue
AreaDone ==
    /\ pc = "area_done"
    /\ NextAction
    /\ UNCHANGED <<conf, wd, lp, held, rv, fr, shared, caller, g>>

\* ------------------------------------------ run(): KeyAction, normal mode
DispatchKey ==
    /\ Dispatching("key")
    /\ CurAction.press_mode = "normal"
    /\ run' = [run EXCEPT !.r_i = 0]
    /\ Goto("key_rep")
    /\ UNCHANGED <<conf, wd, lp, held, rv, fr, shared, caller, g>>

\* for r_i in range(reps): if stop: break; t = a.delay.sample(); the delay is
\* a smooth move when the pointer may move inside the current area, else a sleep
KeyRep ==
    /\ pc = "key_rep"
    /\ IF run.r_i >= Max(1, CurAction.multiplier) \/ stopEv
       THEN NextAction /\ UNCHANGED <<fr, g>>
       ELSE /\ UNCHANGED run
            /\ \E t \in DelaySample(CurAction.delay) :
                 IF run.move_mouse_ready /\ run.area_ok
                 THEN SmoothMoveCall(fr, t, "key_delayed") /\ UNCHANGED g
                 ELSE IF t > 0 THEN SleepCall(t, "key_slept")
                 ELSE Goto("key_delayed") /\ UNCHANGED <<fr, g>>
    /\ UNCHANGED <<conf, wd, lp, held, rv, shared, caller>>

\* if not _sleep_checked(t): break
KeySlept ==
    /\ pc = "key_slept"
    /\ IF rv THEN Goto("key_delayed") /\ UNCHANGED run ELSE NextAction
    /\ UNCHANGED <<conf, wd, lp, held, rv, fr, shared, caller, g>>

\* a Key action of kind mouse with a button clicks; any other presses a combo
KeyClicks(a) == a.kind = "mouse" /\ a.mouse_button # "none"

\* if stop: break; then the click with modifiers or press_combo(a.keys)
KeyDelayed ==
    /\ pc = "key_delayed"
    /\ IF stopEv THEN NextAction /\ UNCHANGED fr
       ELSE IF KeyClicks(CurAction)
       THEN Goto("key_mods") /\ fr' = [fr EXCEPT !.km_i = 1] /\ UNCHANGED run
       ELSE PressComboCall(CurAction.keys, "key_fired") /\ UNCHANGED run
    /\ UNCHANGED <<conf, wd, lp, held, rv, shared, caller, g>>

\* for pk in mod_pks: if stop: break; kb.press(pk); _sleep_checked(0.005).
\* After the loop: _sleep_checked(0.020)
KeyMods ==
    /\ pc = "key_mods"
    /\ LET mods == ModsOnly(CurAction.keys) IN
       IF fr.km_i <= Len(mods) /\ ~stopEv
       THEN /\ held' = held \cup {mods[fr.km_i]}
            /\ SleepCallF([fr EXCEPT !.km_i = @ + 1], ModSettle, "key_mods")
       ELSE /\ held' = held
            /\ SleepCall(ClickSettle, "key_settled")
    /\ UNCHANGED <<conf, wd, lp, rv, run, shared, caller>>

\* if not stop: click(a.mouse_button)
KeySettled ==
    /\ pc = "key_settled"
    /\ IF ~stopEv THEN ClickCall(CurAction.mouse_button, "key_release")
       ELSE Goto("key_release") /\ UNCHANGED fr
    /\ UNCHANGED <<conf, wd, lp, held, rv, run, shared, caller, g>>

\* for pk in reversed(mod_pks): kb.release(pk)
KeyRelease ==
    /\ pc = "key_release"
    /\ held' = held \ Range(ModsOnly(CurAction.keys))
    /\ Goto("key_fired")
    /\ UNCHANGED <<conf, wd, lp, rv, run, fr, shared, caller, g>>

\* done += 1; progress
KeyFired ==
    /\ pc = "key_fired"
    /\ run' = [run EXCEPT !.done = @ + 1, !.r_i = @ + 1]
    /\ Goto("key_rep")
    /\ UNCHANGED <<conf, wd, lp, held, rv, fr, shared, caller, g>>

\* ------------------------------------- _execute_key_long_press_items
\* the event the loop is at, and the plan entry of the item in hand
LpEvent == lp.events[lp.i]
LpTrigger == lp.plan[lp.h + 1].trigger

\* the executor leaves its try block with a result: the finally block is next
LpLeave(result) ==
    /\ lp' = [lp EXCEPT !.result = result]
    /\ Goto("lp_finally")

\* an exception leaves _press_hold_trigger: control passes to the finally
\* block of the executor, whose frame is the lowest on the stack
LpRaise ==
    /\ lp' = [lp EXCEPT !.exc = TRUE]
    /\ pc' = "lp_finally"
    /\ stk' = <<"long_ret">>

\* mode == "long": _execute_key_long_press_items(_key_long_action_items(a), idx);
\* no items: return True; else the plan, the sorted events, started_at
DispatchKeyLong ==
    /\ Dispatching("key")
    /\ CurAction.press_mode = "long"
    /\ IF CurAction.long_press = <<>>
       THEN NextAction /\ UNCHANGED <<stk, lp>>
       ELSE /\ \E plan \in Plans(CurAction.long_press, 1, 0) :
                 lp' = [InitLp EXCEPT !.on = TRUE, !.plan = plan,
                                      !.events = SortEvents(EventsOf(plan)), !.i = 1]
            /\ Call("lp_loop", "long_ret")
            /\ UNCHANGED run
    /\ UNCHANGED <<conf, wd, held, rv, fr, shared, caller, g>>

\* for rel_sec, idx, _ord, ev_type in events: if stop: return False;
\* if restart_from_beginning: return True; if not _wait_if_paused(): ...
\* after the last event: return not self._stop.is_set()
LpLoop ==
    /\ pc = "lp_loop"
    /\ IF lp.i > Len(lp.events) THEN LpLeave(~stopEv)
       ELSE IF stopEv THEN LpLeave(FALSE)
       ELSE IF run.restart_from_beginning THEN LpLeave(TRUE)
       ELSE Call("wp", "lp_gate") /\ UNCHANGED lp
    /\ UNCHANGED <<conf, wd, held, rv, run, fr, shared, caller, g>>

\* if not _wait_if_paused(): return False; target_at = started_at + rel_sec;
\* wait_sec = max(0.0, target_at - perf_counter()); if wait_sec > 0: _sleep_checked
LpGate ==
    /\ pc = "lp_gate"
    /\ IF ~rv THEN LpLeave(FALSE) /\ UNCHANGED <<fr, g>>
       ELSE LET wait_sec == Max(0, LpEvent[1] - lp.clock) IN
            IF wait_sec > 0
            THEN SleepCall(wait_sec, "lp_waited") /\ UNCHANGED lp
            ELSE Goto("lp_fire") /\ UNCHANGED <<fr, g, lp>>
    /\ UNCHANGED <<conf, wd, held, rv, run, shared, caller>>

\* ... and (not _sleep_checked(wait_sec)): return False
LpWaited ==
    /\ pc = "lp_waited"
    /\ IF ~rv THEN LpLeave(FALSE) ELSE Goto("lp_fire") /\ UNCHANGED lp
    /\ UNCHANGED <<conf, wd, held, rv, run, fr, shared, caller, g>>

\* the second pair of tests, then the event: a start presses the trigger of
\* its item, an end pops the handle of its item and releases it
LpFire ==
    /\ pc = "lp_fire"
    /\ IF stopEv THEN LpLeave(FALSE)
       ELSE IF run.restart_from_beginning THEN LpLeave(TRUE)
       ELSE /\ lp' = [lp EXCEPT
                  !.h = LpEvent[2], !.k = 1,
                  !.active = IF LpEvent[4] = "end" THEN @ \ {LpEvent[2]} ELSE @,
                  !.log = Append(@, [time |-> LpEvent[1], idx |-> LpEvent[2],
                                     type |-> LpEvent[4], u |-> lp.clock - lp.paused])]
            /\ IF LpEvent[4] = "start" THEN Call("ph", "lp_began")
               ELSE IF LpEvent[2] \in lp.active THEN Call("rh", "lp_ended")
               ELSE Goto("lp_ended")
    /\ UNCHANGED <<conf, wd, held, rv, run, fr, shared, caller, g>>

\* active_holds[idx] = (the handle _press_hold_trigger returned); continue
LpBegan ==
    /\ pc = "lp_began"
    /\ lp' = [lp EXCEPT !.active = @ \cup {lp.h}, !.i = @ + 1]
    /\ Goto("lp_loop")
    /\ UNCHANGED <<conf, wd, held, rv, run, fr, shared, caller, g>>

\* done += 1; progress
LpEnded ==
    /\ pc = "lp_ended"
    /\ lp' = [lp EXCEPT !.i = @ + 1]
    /\ run' = [run EXCEPT !.done = @ + 1]
    /\ Goto("lp_loop")
    /\ UNCHANGED <<conf, wd, held, rv, fr, shared, caller, g>>

\* finally: for idx in sorted(active_holds, reverse=True): release; clear();
\* then the return value goes to the caller, or the exception goes on to run()
LpFinally ==
    /\ pc = "lp_finally"
    /\ IF lp.active # {}
       THEN LET top == CHOOSE x \in lp.active : \A y \in lp.active : y <= x IN
            /\ lp' = [lp EXCEPT !.h = top, !.k = 1, !.active = @ \ {top}]
            /\ Call("rh", "lp_finally")
            /\ UNCHANGED rv
       ELSE /\ lp' = [lp EXCEPT !.on = FALSE]
            /\ IF lp.exc THEN pc' = "except" /\ stk' = <<>> /\ UNCHANGED rv
               ELSE Return(lp.result)
    /\ UNCHANGED <<conf, wd, held, run, fr, shared, caller, g>>

\* if not _execute_key_long_press_items(...): break; continue
LongRet ==
    /\ pc = "long_ret"
    /\ IF rv THEN NextAction ELSE Goto("pass_end") /\ UNCHANGED run
    /\ UNCHANGED <<conf, wd, lp, held, rv, fr, shared, caller, g>>

\* ------------------------------------------------- _press_hold_trigger
\* _kbd_down(name) ends in kb.press(pk), which raises for a key the host
\* cannot inject
KbdDownRaises(name) == name = env.bad

\* kind == "mouse": for mname in sorted mods_only: if stop: break;
\* _kbd_down(mname); _sleep_checked(0.001)
PressHoldMouse ==
    /\ pc = "ph"
    /\ LpTrigger.kind = "mouse"
    /\ LET mods == SortedMods(LpTrigger.keys) IN
       IF lp.k <= Len(mods) /\ ~stopEv
       THEN IF KbdDownRaises(mods[lp.k])
            THEN LpRaise /\ UNCHANGED <<held, fr, g>>
            ELSE /\ held' = held \cup {mods[lp.k]}
                 /\ lp' = [lp EXCEPT !.k = @ + 1]
                 /\ SleepCall(KeyStep, "ph")
       ELSE Goto("ph_btn") /\ UNCHANGED <<held, fr, g, lp>>
    /\ UNCHANGED <<conf, wd, rv, run, shared, caller>>

\* mouse.press(btn); return {"kind": "mouse", "mods": mods_only, "btn": btn}
PressHoldButton ==
    /\ pc = "ph_btn"
    /\ held' = held \cup {LpTrigger.mouse_button}
    /\ Return(rv)
    /\ UNCHANGED <<conf, wd, lp, run, fr, shared, caller, g>>

\* kind == "keys": no keys: noop; a batch on Windows, else for k in downs:
\* _kbd_down(k); _sleep_checked(0.001); return {"kind": "keys", "ups": ups}
PressHoldKeys ==
    /\ pc = "ph"
    /\ LpTrigger.kind = "keys"
    /\ LET downs == Downs(LpTrigger.keys) IN
       IF env.windows
       THEN /\ held' = held \cup (Range(downs) \ {env.bad})
            /\ Return(rv)
            /\ UNCHANGED <<fr, g, lp>>
       ELSE IF lp.k <= Len(downs)
       THEN IF KbdDownRaises(downs[lp.k])
            THEN LpRaise /\ UNCHANGED <<held, rv, fr, g>>
            ELSE /\ held' = held \cup {downs[lp.k]}
                 /\ lp' = [lp EXCEPT !.k = @ + 1]
                 /\ SleepCall(KeyStep, "ph")
                 /\ UNCHANGED rv
       ELSE Return(rv) /\ UNCHANGED <<held, fr, g, lp>>
    /\ UNCHANGED <<conf, wd, run, shared, caller>>

\* ----------------------------------------------- _release_hold_trigger
\* kind == "mouse": mouse.release(btn); for mname in reversed(mods):
\* _kbd_up(mname); _sleep_checked(0.001)
ReleaseHoldMouse ==
    /\ pc = "rh"
    /\ LpTrigger.kind = "mouse"
    /\ LET mods == Reverse(SortedMods(LpTrigger.keys))
           up == IF lp.k = 1 THEN held \ {LpTrigger.mouse_button} ELSE held IN
       IF lp.k <= Len(mods)
       THEN /\ held' = up \ {mods[lp.k]}
            /\ lp' = [lp EXCEPT !.k = @ + 1]
            /\ SleepCall(KeyStep, "rh")
            /\ UNCHANGED rv
       ELSE /\ held' = up
            /\ Return(rv)
            /\ UNCHANGED <<fr, g, lp>>
    /\ UNCHANGED <<conf, wd, run, shared, caller>>

\* kind == "keys": a batch on Windows, else for k in ups: _kbd_up(k);
\* _sleep_checked(0.001)
ReleaseHoldKeys ==
    /\ pc = "rh"
    /\ LpTrigger.kind = "keys"
    /\ LET ups == Ups(LpTrigger.keys) IN
       IF env.windows \/ lp.k > Len(ups)
       THEN /\ held' = IF env.windows THEN held \ Range(ups) ELSE held
            /\ Return(rv)
            /\ UNCHANGED <<fr, g, lp>>
       ELSE /\ held' = held \ {ups[lp.k]}
            /\ lp' = [lp EXCEPT !.k = @ + 1]
            /\ SleepCall(KeyStep, "rh")
            /\ UNCHANGED rv
    /\ UNCHANGED <<conf, wd, run, shared, caller>>

\* ------------------------------------------- run(): WordAreaAction
\* (OCR is available, the actions have click = False, fail branches hold
\* Wait actions)
\* a search that allows itself one attempt more than search_max_tries
DispatchWordGenerous ==
    /\ Dispatching("word")
    /\ fr' = [fr EXCEPT !.max_tries = Max(1, CurAction.search_max_tries) + 1,
                        !.attempt = 0, !.found = FALSE, !.in_i = 0]
    /\ g' = [Dispatched EXCEPT !.tries = 0, !.backs = 0, !.fail = ""]
    /\ Goto(IF CurAction.search_infinite THEN "wi_top" ELSE "wf_top")
    /\ UNCHANGED <<conf, wd, lp, held, rv, run, shared, caller>>

\* a dispatch of a text search that does not ask whether OCR is available
DispatchWordDeaf ==
    /\ Dispatching("word")
    /\ fr' = [fr EXCEPT !.max_tries = Max(1, CurAction.search_max_tries),
                        !.attempt = 0, !.found = FALSE, !.in_i = 0]
    /\ g' = [Dispatched EXCEPT !.tries = 0, !.backs = 0, !.fail = "",
                               !.blank = @ \/ Strip(CurAction.word) = ""]
    /\ Goto(IF CurAction.search_infinite THEN "wi_top" ELSE "wf_top")
    /\ UNCHANGED <<conf, wd, lp, held, rv, run, shared, caller>>

\* if not ocr_available: action_ok, the skip message, continue; else
\* max_tries = max(1, search_max_tries); the search is infinite or finite
DispatchWord ==
    /\ Dispatching("word")
    /\ IF ~env.ocr
       THEN /\ NextAction
            /\ g' = [Dispatched EXCEPT !.tries = 0, !.backs = 0, !.fail = ""]
            /\ UNCHANGED fr
       ELSE /\ fr' = [fr EXCEPT !.max_tries = Max(1, CurAction.search_max_tries),
                                !.attempt = 0, !.found = FALSE, !.in_i = 0]
            /\ g' = [Dispatched EXCEPT !.tries = 0, !.backs = 0, !.fail = "",
                                       !.blank = @ \/ Strip(CurAction.word) = ""]
            /\ Goto(IF CurAction.search_infinite THEN "wi_top" ELSE "wf_top")
            /\ UNCHANGED run
    /\ UNCHANGED <<conf, wd, lp, held, rv, shared, caller>>

\* an infinite search that gives up after max_tries misses and applies on_fail
WordInfiniteBounded ==
    \/ /\ pc = "wi_top"
       /\ IF stopEv THEN Goto("word_done") ELSE Call("wp", "wi_paused")
       /\ UNCHANGED <<conf, wd, lp, held, rv, run, fr, shared, caller, g>>
    \/ /\ pc = "wi_paused"
       /\ IF ~rv THEN Goto("word_done") /\ UNCHANGED <<fr, g>>
          ELSE \E found \in Resolves(CurAction.word) :
                 LET h == [g EXCEPT !.tries = Min(@ + 1, MaxTries)] IN
                 IF found
                 THEN /\ fr' = [fr EXCEPT !.found = TRUE]
                      /\ g' = h
                      /\ Goto("word_done")
                 ELSE IF h.tries >= fr.max_tries
                 THEN Goto("wf_after") /\ g' = h /\ UNCHANGED fr
                 ELSE SleepCallG(fr, h, RETRY_DELAY, "wi_slept")
       /\ UNCHANGED <<conf, wd, lp, held, rv, run, shared, caller>>
    \/ /\ pc = "wi_slept"
       /\ Goto(IF rv THEN "wi_top" ELSE "word_done")
       /\ g' = [g EXCEPT !.backs = IF rv THEN Min(@ + 1, MaxTries) ELSE @]
       /\ UNCHANGED <<conf, wd, lp, held, rv, run, fr, shared, caller>>

\* if search_infinite: while True: stop? pause gate; attempt += 1; resolve;
\* found: break; else _sleep_checked(RETRY_DELAY) and go on
WordInfinite ==
    \/ /\ pc = "wi_top"
       /\ IF stopEv THEN Goto("word_done") ELSE Call("wp", "wi_paused")
       /\ UNCHANGED <<conf, wd, lp, held, rv, run, fr, shared, caller, g>>
    \/ /\ pc = "wi_paused"
       /\ IF ~rv THEN Goto("word_done") /\ UNCHANGED <<fr, g>>
          ELSE \E found \in Resolves(CurAction.word) :
                 LET h == [g EXCEPT !.tries = Min(@ + 1, MaxTries)] IN
                 IF found
                 THEN /\ fr' = [fr EXCEPT !.found = TRUE]
                      /\ g' = h
                      /\ Goto("word_done")
                 ELSE SleepCallG(fr, h, RETRY_DELAY, "wi_slept")
       /\ UNCHANGED <<conf, wd, lp, held, rv, run, shared, caller>>
    \/ /\ pc = "wi_slept"
       /\ Goto(IF rv THEN "wi_top" ELSE "word_done")
       /\ g' = [g EXCEPT !.backs = IF rv THEN Min(@ + 1, MaxTries) ELSE @]
       /\ UNCHANGED <<conf, wd, lp, held, rv, run, fr, shared, caller>>

\* the finite search: while True: stop? pause gate; found = None;
\* for attempt in range(1, max_tries + 1): stop? pause gate; resolve; found:
\* break; if attempt < max_tries: _sleep_checked(RETRY_DELAY)
WordFinite ==
    \/ /\ pc = "wf_top"
       /\ IF stopEv THEN Goto("word_done") ELSE Call("wp", "wf_round")
       /\ UNCHANGED <<conf, wd, lp, held, rv, run, fr, shared, caller, g>>
    \/ /\ pc = "wf_round"
       /\ IF ~rv THEN Goto("word_done") /\ UNCHANGED <<fr, g>>
          ELSE /\ fr' = [fr EXCEPT !.found = FALSE, !.attempt = 1]
               /\ g' = [g EXCEPT !.tries = 0, !.backs = 0]
               /\ Goto("wf_for")
       /\ UNCHANGED <<conf, wd, lp, held, rv, run, shared, caller>>
    \/ /\ pc = "wf_for"
       /\ IF fr.attempt > fr.max_tries \/ stopEv
          THEN Goto("wf_after") ELSE Call("wp", "wf_try")
       /\ UNCHANGED <<conf, wd, lp, held, rv, run, fr, shared, caller, g>>
    \/ /\ pc = "wf_try"
       /\ IF ~rv THEN Goto("wf_after") /\ UNCHANGED <<fr, g>>
          ELSE \E found \in Resolves(CurAction.word) :
                 LET h == [g EXCEPT !.tries = Min(@ + 1, MaxTries)] IN
                 IF found
                 THEN /\ fr' = [fr EXCEPT !.found = TRUE]
                      /\ g' = h
                      /\ Goto("wf_after")
                 ELSE IF fr.attempt < fr.max_tries
                 THEN SleepCallG(fr, h, RETRY_DELAY, "wf_slept")
                 ELSE /\ fr' = [fr EXCEPT !.attempt = @ + 1]
                      /\ g' = h
                      /\ Goto("wf_for")
       /\ UNCHANGED <<conf, wd, lp, held, rv, run, shared, caller>>
    \/ /\ pc = "wf_slept"
       /\ IF rv
          THEN /\ fr' = [fr EXCEPT !.attempt = @ + 1]
               /\ g' = [g EXCEPT !.backs = Min(@ + 1, MaxTries)]
               /\ Goto("wf_for")
          ELSE Goto("wf_after") /\ UNCHANGED <<fr, g>>
       /\ UNCHANGED <<conf, wd, lp, held, rv, run, shared, caller>>

\* an exhausted round with on_fail "retry" that starts the next round at once
WordExhaustedImpatient ==
    \/ /\ pc = "wf_after"
       /\ LET on_fail == IF CurAction.search_on_fail \in {"retry", "error", "action"}
                         THEN CurAction.search_on_fail ELSE "retry"
              seq == CurAction.on_fail_actions
              h == [g EXCEPT !.fail = on_fail]
          IN  IF stopEv \/ fr.found
              THEN Goto("word_done") /\ UNCHANGED <<rv, run, fr, g>>
              ELSE IF on_fail = "error"
              THEN /\ MarkEndCall("error", WordFailReason(CurAction.word), "word_err")
                   /\ g' = h
                   /\ UNCHANGED <<rv, run>>
              ELSE IF on_fail = "action"
              THEN /\ g' = h
                   /\ fr' = [fr EXCEPT !.in_i = 1]
                   /\ IF seq = <<>>
                      THEN Goto("fail_ret") /\ rv' = TRUE /\ UNCHANGED run
                      ELSE /\ Call("in_head", "fail_ret")
                           /\ run' = [run EXCEPT !.total = @ + EstimateExtra(seq)]
                           /\ UNCHANGED rv
              ELSE /\ Goto("wf_top") /\ g' = h
                   /\ UNCHANGED <<rv, run, fr>>
       /\ UNCHANGED <<conf, wd, lp, held, shared, caller>>
    \/ /\ pc = "word_err"
       /\ g' = Said(g, WordFailReason(CurAction.word))
       /\ stopEv' = TRUE
       /\ Goto("word_done")
       /\ UNCHANGED <<conf, wd, lp, held, rv, run, fr, pauseEv, end_state, end_reason,
                      caller>>
    \/ /\ pc = "wf_round_slept"
       /\ Goto(IF rv THEN "wf_top" ELSE "word_done")
       /\ UNCHANGED <<conf, wd, lp, held, rv, run, fr, shared, caller, g>>

\* after the for loop: stop? found: break; else the message of the exhausted
\* round and on_fail: "error": _mark_end("error", msg), self._stop.set(), break;
\* "action": _execute_inline_actions(a.on_fail_actions, idx) (an empty list
\* returns True at once; else total += the estimate of the list);
\* else ("retry", or any other value): _sleep_checked(ROUND_DELAY), next round
WordExhausted ==
    \/ /\ pc = "wf_after"
       /\ LET on_fail == IF CurAction.search_on_fail \in {"retry", "error", "action"}
                         THEN CurAction.search_on_fail ELSE "retry"
              seq == CurAction.on_fail_actions
              h == [g EXCEPT !.fail = on_fail]
          IN  IF stopEv \/ fr.found
              THEN Goto("word_done") /\ UNCHANGED <<rv, run, fr, g>>
              ELSE IF on_fail = "error"
              THEN /\ MarkEndCall("error", WordFailReason(CurAction.word), "word_err")
                   /\ g' = h
                   /\ UNCHANGED <<rv, run>>
              ELSE IF on_fail = "action"
              THEN /\ g' = h
                   /\ fr' = [fr EXCEPT !.in_i = 1]
                   /\ IF seq = <<>>
                      THEN Goto("fail_ret") /\ rv' = TRUE /\ UNCHANGED run
                      ELSE /\ Call("in_head", "fail_ret")
                           /\ run' = [run EXCEPT !.total = @ + EstimateExtra(seq)]
                           /\ UNCHANGED rv
              ELSE /\ SleepCallG(fr, h, ROUND_DELAY, "wf_round_slept")
                   /\ UNCHANGED <<rv, run>>
       /\ UNCHANGED <<conf, wd, lp, held, shared, caller>>
    \/ /\ pc = "word_err"
       /\ g' = Said(g, WordFailReason(CurAction.word))
       /\ stopEv' = TRUE
       /\ Goto("word_done")
       /\ UNCHANGED <<conf, wd, lp, held, rv, run, fr, pauseEv, end_state, end_reason,
                      caller>>
    \/ /\ pc = "wf_round_slept"
       /\ Goto(IF rv THEN "wf_top" ELSE "word_done")
       /\ UNCHANGED <<conf, wd, lp, held, rv, run, fr, shared, caller, g>>

\* the action of the fail branch the inline loop is at
SubAction == CurAction.on_fail_actions[fr.in_i]

\* history: the action of the fail branch at fr.in_i is executed
InlineDispatched == [g EXCEPT !.sub = Append(@, fr.in_i)]

\* self._bound_exe of a player on Windows: the record is bound to a process
BoundExe == env.exe \/ env.bound \/ env.lost

\* _execute_inline_actions: for sub_a in seq: stop: return False; restart
\* requested: return True; pause gate; _execute_inline_action(sub_a), here a
\* WaitAction: stop: return False; _sleep_checked(a.delay.sample()); done += 1;
\* after the list: return not self._stop.is_set()
InlineActions ==
    \/ /\ pc = "in_head"
       /\ IF fr.in_i > Len(CurAction.on_fail_actions) THEN Return(~stopEv)
          ELSE IF stopEv THEN Return(FALSE)
          ELSE IF run.restart_from_beginning THEN Return(TRUE)
          ELSE Call("wp", "in_paused") /\ UNCHANGED rv
       /\ UNCHANGED <<conf, wd, lp, held, run, fr, shared, caller, g>>
    \/ /\ pc = "in_paused"
       /\ IF ~rv \/ stopEv THEN Return(FALSE) /\ UNCHANGED <<fr, g>>
          ELSE IF SubAction.type = "wait"
          THEN /\ \E t \in DelaySample(SubAction.delay) :
                      SleepCallG(fr, InlineDispatched, t, "in_wait_ret")
               /\ UNCHANGED rv
          ELSE /\ Goto("ia_start")
               /\ g' = InlineDispatched
               /\ UNCHANGED <<rv, fr>>
       /\ UNCHANGED <<conf, wd, lp, held, run, shared, caller>>
    \/ /\ pc = "in_wait_ret"
       /\ IF rv
          THEN /\ run' = [run EXCEPT !.done = @ + 1]
               /\ fr' = [fr EXCEPT !.in_i = @ + 1]
               /\ Goto("in_head")
               /\ UNCHANGED rv
          ELSE Return(FALSE) /\ UNCHANGED <<run, fr>>
       /\ UNCHANGED <<conf, wd, lp, held, shared, caller, g>>

\* poll = max(0.1, float(a.poll)) of a WaitEventAction
PollOf(a) == Max(100, a.poll)

\* _execute_inline_action for a BaseAreaAction, a WordAreaAction or a
\* WaitEventAction of a fail branch (the WaitAction is in InlineActions).  The
\* BaseAreaAction: base_area = a_inline.rect(), return True, with no look at
\* the bound window.  Without OCR the other two are skipped
\* with return True (the WaitEventAction counts one step).  The text search
\* is the loop of the top level with `return False` where that one breaks on
\* the cancel signal; found: move_mouse_ready = True, return True; exhausted:
\* "error": _mark_end, self._stop.set(), return False; "action": the nested
\* list (empty in the records of the model: return True at once), then the
\* restart test and _apply_on_fail_post_mode(a_inline); else the round sleep.
\* ia_done: back in _execute_inline_actions with the value returned.
ExecuteInlineAction ==
    \/ /\ pc = "ia_start"
       /\ IF SubAction.type = "base"
          THEN /\ run' = [run EXCEPT !.base_area = "stored"]
               /\ Goto("ia_done") /\ rv' = TRUE
               /\ UNCHANGED <<fr, g>>
          ELSE IF SubAction.type = "word"
          THEN IF ~env.ocr
               THEN Goto("ia_done") /\ rv' = TRUE /\ UNCHANGED <<run, fr, g>>
               ELSE /\ fr' = [fr EXCEPT !.n_max = Max(1, SubAction.search_max_tries),
                                        !.n_attempt = 0]
                    /\ g' = [g EXCEPT !.blank = @ \/ Strip(SubAction.word) = ""]
                    /\ Goto(IF SubAction.search_infinite THEN "nwi_top" ELSE "nwf_top")
                    /\ UNCHANGED <<rv, run>>
          ELSE IF ~env.ocr \/ ~SubAction.zone_ok
               THEN /\ run' = [run EXCEPT !.done = @ + 1]
                    /\ Goto("ia_done") /\ rv' = TRUE
                    /\ UNCHANGED <<fr, g>>
               ELSE /\ g' = [g EXCEPT !.blank = @ \/ Strip(SubAction.expected_text) = ""]
                    /\ Goto("nwe_top")
                    /\ UNCHANGED <<rv, run, fr>>
       /\ UNCHANGED <<conf, wd, lp, held, shared, caller>>
    \/ /\ pc \in {"nwi_top", "nwf_top", "nwe_top"}
       /\ IF stopEv THEN Goto("ia_done") /\ rv' = FALSE
          ELSE /\ Call("wp", CASE pc = "nwi_top" -> "nwi_paused"
                                [] pc = "nwf_top" -> "nwf_round"
                                [] OTHER -> "nwe_paused")
               /\ UNCHANGED rv
       /\ UNCHANGED <<conf, wd, lp, held, run, fr, shared, caller, g>>
    \/ /\ pc = "nwi_paused"
       /\ IF ~rv THEN Goto("ia_done") /\ UNCHANGED <<rv, run, fr, g>>
          ELSE \E found \in Resolves(SubAction.word) :
                 LET h == [g EXCEPT !.tries = Min(@ + 1, MaxTries)] IN
                 IF found
                 THEN /\ run' = [run EXCEPT !.move_mouse_ready = TRUE, !.area_ok = TRUE]
                      /\ g' = h
                      /\ Goto("ia_done")
                      /\ UNCHANGED <<rv, fr>>
                 ELSE /\ SleepCallG(fr, h, RETRY_DELAY, "nw_slept")
                      /\ UNCHANGED <<rv, run>>
       /\ UNCHANGED <<conf, wd, lp, held, shared, caller>>
    \/ /\ pc = "nw_slept"
       /\ Goto(IF ~rv THEN "ia_done"
               ELSE IF SubAction.type = "wait_event" THEN "nwe_top"
               ELSE IF SubAction.search_infinite THEN "nwi_top" ELSE "nwf_for")
       /\ fr' = [fr EXCEPT !.n_attempt =
                    IF rv /\ SubAction.type = "word" /\ ~SubAction.search_infinite
                    THEN @ + 1 ELSE @]
       /\ UNCHANGED <<conf, wd, lp, held, rv, run, shared, caller, g>>
    \/ /\ pc = "nwf_round"
       /\ IF ~rv THEN Goto("ia_done") /\ UNCHANGED fr
          ELSE Goto("nwf_for") /\ fr' = [fr EXCEPT !.n_attempt = 1]
       /\ UNCHANGED <<conf, wd, lp, held, rv, run, shared, caller, g>>
    \/ /\ pc = "nwf_for"
       /\ IF fr.n_attempt > fr.n_max THEN Goto("nwf_after") /\ UNCHANGED rv
          ELSE IF stopEv THEN Goto("ia_done") /\ rv' = FALSE
          ELSE Call("wp", "nwf_try") /\ UNCHANGED rv
       /\ UNCHANGED <<conf, wd, lp, held, run, fr, shared, caller, g>>
    \/ /\ pc = "nwf_try"
       /\ IF ~rv THEN Goto("ia_done") /\ UNCHANGED <<rv, run, fr, g>>
          ELSE \E found \in Resolves(SubAction.word) :
                 LET h == [g EXCEPT !.tries = Min(@ + 1, MaxTries)] IN
                 IF found
                 THEN /\ run' = [run EXCEPT !.move_mouse_ready = TRUE, !.area_ok = TRUE]
                      /\ g' = h
                      /\ Goto("ia_done")
                      /\ UNCHANGED <<rv, fr>>
                 ELSE IF fr.n_attempt < fr.n_max
                 THEN /\ SleepCallG(fr, h, RETRY_DELAY, "nw_slept")
                      /\ UNCHANGED <<rv, run>>
                 ELSE /\ fr' = [fr EXCEPT !.n_attempt = @ + 1]
                      /\ g' = h
                      /\ Goto("nwf_for")
                      /\ UNCHANGED <<rv, run>>
       /\ UNCHANGED <<conf, wd, lp, held, shared, caller>>
    \/ /\ pc = "nwf_after"
       /\ LET on_fail == IF SubAction.search_on_fail \in {"retry", "error", "action"}
                         THEN SubAction.search_on_fail ELSE "retry"
              mode == IF SubAction.on_fail_post_mode \in {"none", "stop", "repeat"}
                      THEN SubAction.on_fail_post_mode ELSE "none"
          IN  IF on_fail = "error"
              THEN /\ MarkEndCall("error", WordFailReason(SubAction.word), "nw_stop")
                   /\ UNCHANGED <<rv, run, g>>
              ELSE IF on_fail = "action"
              THEN /\ SubAction.on_fail_actions = <<>>
                   /\ IF run.restart_from_beginning
                      THEN Goto("ia_done") /\ rv' = TRUE /\ UNCHANGED <<run, fr>>
                      ELSE IF mode = "stop"
                      THEN MarkEndCall("stopped", PostStopReason, "nw_stop")
                           /\ UNCHANGED <<rv, run>>
                      ELSE /\ run' = IF mode = "repeat"
                                     THEN [run EXCEPT !.restart_from_beginning = TRUE,
                                                      !.start_index = 0]
                                     ELSE run
                           /\ Goto("ia_done") /\ rv' = TRUE
                           /\ UNCHANGED fr
                   /\ UNCHANGED g
              ELSE /\ SleepCallG(fr, g, ROUND_DELAY, "nwf_round_slept")
                   /\ UNCHANGED <<rv, run>>
       /\ UNCHANGED <<conf, wd, lp, held, shared, caller>>
    \/ /\ pc = "nw_stop"
       /\ g' = Said(g, fr.me_reason)
       /\ stopEv' = TRUE
       /\ rv' = FALSE
       /\ Goto("ia_done")
       /\ UNCHANGED <<conf, wd, lp, held, run, fr, pauseEv, end_state, end_reason,
                      caller>>
    \/ /\ pc = "nwf_round_slept"
       /\ Goto(IF rv THEN "nwf_top" ELSE "ia_done")
       /\ UNCHANGED <<conf, wd, lp, held, rv, run, fr, shared, caller, g>>
    \/ /\ pc = "nwe_paused"
       /\ IF ~rv THEN Goto("ia_done") /\ UNCHANGED <<rv, run, fr, g>>
          ELSE \E found \in Resolves(SubAction.expected_text) :
                 LET h == [g EXCEPT !.tries = Min(@ + 1, MaxTries)] IN
                 IF found
                 THEN /\ run' = [run EXCEPT !.done = @ + 1]
                      /\ g' = h
                      /\ Goto("ia_done")
                      /\ UNCHANGED <<rv, fr>>
                 ELSE /\ SleepCallG(fr, h, PollOf(SubAction), "nw_slept")
                      /\ UNCHANGED <<rv, run>>
       /\ UNCHANGED <<conf, wd, lp, held, shared, caller>>
    \/ /\ pc = "ia_done"
       /\ IF rv
          THEN /\ fr' = [fr EXCEPT !.in_i = @ + 1]
               /\ Goto("in_head")
               /\ UNCHANGED rv
          ELSE Return(FALSE) /\ UNCHANGED fr
       /\ UNCHANGED <<conf, wd, lp, held, run, shared, caller, g>>

\* isinstance(a, WaitEventAction) at the top level: without OCR, or with no
\* zone: one step is counted and the loop goes on; else while not stop: pause
\* gate; resolve; ok: done += 1, break; _sleep_checked(poll); then continue
DispatchWaitEvent ==
    \/ /\ Dispatching("wait_event")
       /\ IF ~env.ocr \/ ~CurAction.zone_ok
          THEN /\ run' = [run EXCEPT !.done = @ + 1, !.idx = @ + 1]
               /\ Goto("for_head")
               /\ g' = [Dispatched EXCEPT !.tries = 0]
          ELSE /\ Goto("we_top")
               /\ g' = [Dispatched EXCEPT !.tries = 0,
                                          !.blank = @ \/ Strip(CurAction.expected_text) = ""]
               /\ UNCHANGED run
       /\ UNCHANGED <<conf, wd, lp, held, rv, fr, shared, caller>>
    \/ /\ pc = "we_top"
       /\ IF stopEv THEN NextAction ELSE Call("wp", "we_paused") /\ UNCHANGED run
       /\ UNCHANGED <<conf, wd, lp, held, rv, fr, shared, caller, g>>
    \/ /\ pc = "we_paused"
       /\ IF ~rv THEN NextAction /\ UNCHANGED <<fr, g>>
          ELSE \E found \in Resolves(CurAction.expected_text) :
                 LET h == [g EXCEPT !.tries = Min(@ + 1, MaxTries)] IN
                 IF found
                 THEN /\ run' = [run EXCEPT !.done = @ + 1, !.idx = @ + 1]
                      /\ Goto("for_head")
                      /\ g' = h
                      /\ UNCHANGED fr
                 ELSE /\ SleepCallG(fr, h, PollOf(CurAction), "we_slept")
                      /\ UNCHANGED run
       /\ UNCHANGED <<conf, wd, lp, held, rv, shared, caller>>
    \/ /\ pc = "we_slept"
       /\ IF rv THEN Goto("we_top") /\ UNCHANGED run ELSE NextAction
       /\ UNCHANGED <<conf, wd, lp, held, rv, fr, shared, caller, g>>

\* a post mode step whose "repeat" restarts the pass at the start index of the run
ApplyOnFailPostModeAnchored ==
    \/ /\ pc = "fail_ret"
       /\ LET mode == IF CurAction.on_fail_post_mode \in {"none", "stop", "repeat"}
                      THEN CurAction.on_fail_post_mode ELSE "none"
              h == [g EXCEPT !.post = <<mode, run.idx>>]
          IN  IF ~rv \/ run.restart_from_beginning
              THEN Goto("word_done") /\ UNCHANGED <<run, fr, g>>
              ELSE IF mode = "stop"
              THEN /\ MarkEndCall("stopped", PostStopReason, "post_stop")
                   /\ g' = h
                   /\ UNCHANGED run
              ELSE /\ run' = IF mode = "repeat"
                             THEN [run EXCEPT !.restart_from_beginning = TRUE]
                             ELSE run
                   /\ g' = h
                   /\ Goto("word_done")
                   /\ UNCHANGED fr
       /\ UNCHANGED <<conf, wd, lp, held, rv, shared, caller>>
    \/ /\ pc = "post_stop"
       /\ g' = Said(g, PostStopReason)
       /\ stopEv' = TRUE
       /\ Goto("word_done")
       /\ UNCHANGED <<conf, wd, lp, held, rv, run, fr, pauseEv, end_state, end_reason,
                      caller>>

\* a post mode step that treats "stop" as "none"
ApplyOnFailPostModeLax ==
    \/ /\ pc = "fail_ret"
       /\ LET mode == IF CurAction.on_fail_post_mode \in {"none", "stop", "repeat"}
                      THEN CurAction.on_fail_post_mode ELSE "none"
              h == [g EXCEPT !.post = <<mode, run.idx>>]
          IN  IF ~rv \/ run.restart_from_beginning
              THEN Goto("word_done") /\ UNCHANGED <<run, fr, g>>
              ELSE /\ run' = IF mode = "repeat"
                             THEN [run EXCEPT !.restart_from_beginning = TRUE,
                                              !.start_index = 0]
                             ELSE run
                   /\ g' = h
                   /\ Goto("word_done")
                   /\ UNCHANGED fr
       /\ UNCHANGED <<conf, wd, lp, held, rv, shared, caller>>
    \/ /\ pc = "post_stop"
       /\ g' = Said(g, PostStopReason)
       /\ stopEv' = TRUE
       /\ Goto("word_done")
       /\ UNCHANGED <<conf, wd, lp, held, rv, run, fr, pauseEv, end_state, end_reason,
                      caller>>

\* back from the fail branch: False: break; restart requested: break;
\* _apply_on_fail_post_mode(a): "stop": _mark_end("stopped", stop_msg),
\* self._stop.set(), return False; "repeat": restart_from_beginning = True,
\* start_index = 0; any other mode is "none"; break
ApplyOnFailPostMode ==
    \/ /\ pc = "fail_ret"
       /\ LET mode == IF CurAction.on_fail_post_mode \in {"none", "stop", "repeat"}
                      THEN CurAction.on_fail_post_mode ELSE "none"
              h == [g EXCEPT !.post = <<mode, run.idx>>]
          IN  IF ~rv \/ run.restart_from_beginning
              THEN Goto("word_done") /\ UNCHANGED <<run, fr, g>>
              ELSE IF mode = "stop"
              THEN /\ MarkEndCall("stopped", PostStopReason, "post_stop")
                   /\ g' = h
                   /\ UNCHANGED run
              ELSE /\ run' = IF mode = "repeat"
                             THEN [run EXCEPT !.restart_from_beginning = TRUE,
                                              !.start_index = 0]
                             ELSE run
                   /\ g' = h
                   /\ Goto("word_done")
                   /\ UNCHANGED fr
       /\ UNCHANGED <<conf, wd, lp, held, rv, shared, caller>>
    \/ /\ pc = "post_stop"
       /\ g' = Said(g, PostStopReason)
       /\ stopEv' = TRUE
       /\ Goto("word_done")
       /\ UNCHANGED <<conf, wd, lp, held, rv, run, fr, pauseEv, end_state, end_reason,
                      caller>>

\* after the search: if self._stop.is_set(): break; if restart_from_beginning:
\* break; continue (a match made current_area the match, move_mouse_ready True)
WordDone ==
    /\ pc = "word_done"
    /\ IF stopEv \/ run.restart_from_beginning
       THEN Goto("pass_end") /\ UNCHANGED run
       ELSE /\ run' = [run EXCEPT !.idx = @ + 1,
                                  !.move_mouse_ready = @ \/ fr.found,
                                  !.area_ok = @ \/ fr.found]
            /\ Goto("for_head")
    /\ UNCHANGED <<conf, wd, lp, held, rv, fr, shared, caller, g>>

\* a pass end that counts every restart against the cycles left, also with
\* repeat disabled
PassEndBounded ==
    /\ pc = "pass_end"
    /\ IF stopEv THEN Goto("finally") /\ UNCHANGED <<run, fr, g>>
       ELSE IF run.restart_from_beginning THEN
            /\ g' = [g EXCEPT !.restarts = Min(@ + 1, MaxPasses)]
            /\ UNCHANGED fr
            /\ IF ~run.infinite
               THEN /\ run' = [run EXCEPT !.restart_from_beginning = FALSE,
                                          !.cycles_left = @ - 1]
                    /\ Goto(IF run.cycles_left - 1 <= 0 THEN "finally" ELSE "loop_top")
               ELSE /\ run' = [run EXCEPT !.restart_from_beginning = FALSE]
                    /\ Goto("loop_top")
       ELSE IF ~record.repeat.enabled THEN Goto("finally") /\ UNCHANGED <<run, fr, g>>
       ELSE IF ~run.infinite /\ run.cycles_left - 1 <= 0
            THEN /\ run' = [run EXCEPT !.cycles_left = @ - 1]
                 /\ Goto("finally")
                 /\ UNCHANGED <<fr, g>>
       ELSE /\ run' = [run EXCEPT !.cycles_left = IF run.infinite THEN @ ELSE @ - 1]
            /\ \E d \in DelaySample(record.repeat.delay) :
                   IF d > 0
                   THEN SleepCallG(fr, [g EXCEPT !.gaps = Min(@ + 1, MaxPasses)],
                                   d, "cycle_ret")
                   ELSE Goto("loop_top") /\ UNCHANGED <<fr, g>>
    /\ UNCHANGED <<conf, wd, lp, held, rv, shared, caller>>

\* a pass end that counts the cycles down in the repeat settings of the record
PassEndShared ==
    /\ pc = "pass_end"
    /\ record' = [record EXCEPT !.repeat.count = IF stopEv THEN @ ELSE @ - 1]
    /\ run' = [run EXCEPT !.restart_from_beginning = FALSE,
                          !.cycles_left = IF stopEv THEN @ ELSE record.repeat.count - 1]
    /\ Goto(IF stopEv \/ ~record.repeat.enabled \/ record.repeat.count - 1 <= 0
            THEN "finally" ELSE "loop_top")
    /\ UNCHANGED <<env, sw, calc, wd, lp, held, rv, fr, shared, caller, g>>

\* a pass end at which a pass ended by a restart request costs no cycle
PassEndFree ==
    /\ pc = "pass_end"
    /\ IF stopEv THEN Goto("finally") /\ UNCHANGED <<run, fr, g>>
       ELSE IF run.restart_from_beginning THEN
            /\ g' = [g EXCEPT !.restarts = Min(@ + 1, MaxPasses)]
            /\ UNCHANGED fr
            /\ IF record.repeat.enabled /\ ~run.infinite
               THEN /\ run' = [run EXCEPT !.restart_from_beginning = FALSE]
                    /\ Goto(IF run.cycles_left <= 0 THEN "finally" ELSE "loop_top")
               ELSE /\ run' = [run EXCEPT !.restart_from_beginning = FALSE]
                    /\ Goto("loop_top")
       ELSE IF ~record.repeat.enabled THEN Goto("finally") /\ UNCHANGED <<run, fr, g>>
       ELSE IF ~run.infinite /\ run.cycles_left - 1 <= 0
            THEN /\ run' = [run EXCEPT !.cycles_left = @ - 1]
                 /\ Goto("finally")
                 /\ UNCHANGED <<fr, g>>
       ELSE /\ run' = [run EXCEPT !.cycles_left = IF run.infinite THEN @ ELSE @ - 1]
            /\ \E d \in DelaySample(record.repeat.delay) :
                   IF d > 0
                   THEN SleepCallG(fr, [g EXCEPT !.gaps = Min(@ + 1, MaxPasses)],
                                   d, "cycle_ret")
                   ELSE Goto("loop_top") /\ UNCHANGED <<fr, g>>
    /\ UNCHANGED <<conf, wd, lp, held, rv, shared, caller>>

\* a pass end that tests the counter before it decrements it
PassEndEager ==
    /\ pc = "pass_end"
    /\ IF stopEv THEN Goto("finally") /\ UNCHANGED <<run, fr, g>>
       ELSE IF run.restart_from_beginning THEN
            /\ g' = [g EXCEPT !.restarts = Min(@ + 1, MaxPasses)]
            /\ UNCHANGED fr
            /\ IF record.repeat.enabled /\ ~run.infinite
               THEN /\ run' = [run EXCEPT !.restart_from_beginning = FALSE,
                                          !.cycles_left = @ - 1]
                    /\ Goto(IF run.cycles_left - 1 <= 0 THEN "finally" ELSE "loop_top")
               ELSE /\ run' = [run EXCEPT !.restart_from_beginning = FALSE]
                    /\ Goto("loop_top")
       ELSE IF ~record.repeat.enabled THEN Goto("finally") /\ UNCHANGED <<run, fr, g>>
       ELSE IF ~run.infinite /\ run.cycles_left <= 0
            THEN /\ run' = [run EXCEPT !.cycles_left = @ - 1]
                 /\ Goto("finally")
                 /\ UNCHANGED <<fr, g>>
       ELSE /\ run' = [run EXCEPT !.cycles_left = IF run.infinite THEN @ ELSE @ - 1]
            /\ \E d \in DelaySample(record.repeat.delay) :
                   IF d > 0
                   THEN SleepCallG(fr, [g EXCEPT !.gaps = Min(@ + 1, MaxPasses)],
                                   d, "cycle_ret")
                   ELSE Goto("loop_top") /\ UNCHANGED <<fr, g>>
    /\ UNCHANGED <<conf, wd, lp, held, rv, shared, caller>>

\* ------------------------------------------------- run(): end of a pass
\* lines 1473-1501: stop, restart request, repeat accounting, inter-cycle delay
PassEnd ==
    /\ pc = "pass_end"
    /\ IF stopEv THEN Goto("finally") /\ UNCHANGED <<run, fr, g>>
       ELSE IF run.restart_from_beginning THEN
            /\ g' = [g EXCEPT !.restarts = Min(@ + 1, MaxPasses)]
            /\ UNCHANGED fr
            /\ IF record.repeat.enabled /\ ~run.infinite
               THEN /\ run' = [run EXCEPT !.restart_from_beginning = FALSE,
                                          !.cycles_left = @ - 1]
                    /\ Goto(IF run.cycles_left - 1 <= 0 THEN "finally" ELSE "loop_top")
               ELSE /\ run' = [run EXCEPT !.restart_from_beginning = FALSE]
                    /\ Goto("loop_top")
       ELSE IF ~record.repeat.enabled THEN Goto("finally") /\ UNCHANGED <<run, fr, g>>
       ELSE IF ~run.infinite /\ run.cycles_left - 1 <= 0
            THEN /\ run' = [run EXCEPT !.cycles_left = @ - 1]
                 /\ Goto("finally")
                 /\ UNCHANGED <<fr, g>>
       ELSE /\ run' = [run EXCEPT !.cycles_left = IF run.infinite THEN @ ELSE @ - 1]
            /\ \E d \in DelaySample(record.repeat.delay) :
                   IF d > 0
                   THEN SleepCallG(fr, [g EXCEPT !.gaps = Min(@ + 1, MaxPasses)],
                                   d, "cycle_ret")
                   ELSE Goto("loop_top") /\ UNCHANGED <<fr, g>>
    /\ UNCHANGED <<conf, wd, lp, held, rv, shared, caller>>

\* if not _sleep_checked(d): break
CycleRet ==
    /\ pc = "cycle_ret"
    /\ Goto(IF rv THEN "loop_top" ELSE "finally")
    /\ UNCHANGED <<conf, wd, lp, held, rv, run, fr, shared, caller, g>>

\* --------------------------------------------- _mark_end (playback thread)
\* MacroPlayer._mark_end is three steps: the test, the write of end_state,
\* the write of end_reason; another thread may run between them.
\* if getattr(self, "end_state", "done") == "done":
MarkEndCheck ==
    /\ pc = "me_check"
    /\ IF MarkEndOpen(end_state) THEN Goto("me_wstate") /\ UNCHANGED rv
       ELSE Return(rv)
    /\ UNCHANGED <<conf, wd, lp, held, run, fr, shared, caller, g>>

\* self.end_state = state
MarkEndState ==
    /\ pc = "me_wstate"
    /\ end_state' = fr.me_state
    /\ g' = Wrote
    /\ Goto("me_wreason")
    /\ UNCHANGED <<conf, wd, lp, held, rv, run, fr, stopEv, pauseEv, end_reason, caller>>

\* self.end_reason = reason
MarkEndReason ==
    /\ pc = "me_wreason"
    /\ end_reason' = fr.me_reason
    /\ g' = Recorded(fr.me_reason)
    /\ Return(rv)
    /\ UNCHANGED <<conf, wd, lp, held, run, fr, stopEv, pauseEv, end_state, caller>>

\* ------------------------------------------- run(): except Exception
\* msg = "...": self._mark_end("error", msg); status.emit(msg) (the message
\* is entered in the history with the call: nothing but _mark_end runs in
\* between, and the finally block follows)
Except ==
    /\ pc = "except"
    /\ MarkEndCall("error", FaultReason, "finally")
    /\ g' = Said(g, FaultReason)
    /\ UNCHANGED <<conf, wd, lp, held, rv, run, shared, caller>>

\* ------------------------------------------------- run(): finally block
\* if self._stop.is_set() and end_state == "done": self._mark_end("stopped", ...)
Finally ==
    /\ pc = "finally"
    /\ IF stopEv /\ end_state = "done"
       THEN MarkEndCall("stopped", FinallyReason, "emit_finished")
       ELSE Goto("emit_finished") /\ UNCHANGED fr
    /\ g' = [g EXCEPT !.normalEnd = ~stopEv /\ end_state = "done" /\ NoStopInside]
    /\ UNCHANGED <<conf, wd, lp, held, rv, run, shared, caller>>

\* self.signals.finished.emit(); run() returns
EmitFinished ==
    /\ pc = "emit_finished"
    /\ Goto("finished")
    /\ g' = [g EXCEPT !.finished = @ + 1]
    /\ UNCHANGED <<conf, wd, lp, held, rv, run, fr, shared, caller>>

\* ------------------------------------------------ run(): BaseAreaAction
\* _resolve_runtime_base(); a bound window that is not found: _mark_end("error",
\* msg); else base_area is set, _sw_set_snapshot(base_area, dpr); continue
\* (records whose base area has click = False)
DispatchBase ==
    /\ Dispatching("base")
    /\ ~CurAction.click
    /\ IF env.bound
       THEN MarkEndCall("error", BaseReason, "base_err") /\ UNCHANGED <<run, wd>>
       ELSE /\ wd' = [wd EXCEPT !.sw_base = TRUE]
            /\ run' = [run EXCEPT !.idx = @ + 1,
                                  !.base_area = IF env.exe THEN "live" ELSE "stored"]
            /\ Goto("for_head")
            /\ UNCHANGED fr
    /\ UNCHANGED <<conf, lp, held, rv, shared, caller, g>>

\* status.emit(msg); self._stop.set(); break
BaseErr ==
    /\ pc = "base_err"
    /\ g' = Said(g, BaseReason)
    /\ stopEv' = TRUE
    /\ Goto("pass_end")
    /\ UNCHANGED <<conf, wd, lp, held, rv, run, fr, pauseEv, end_state, end_reason, caller>>

\* ------------------------------------------------- the stop-word worker
\* while not self._stop.is_set(): (not enabled, or not due: sleep and go on);
\* the snapshot is read under _sw_lock; with a base, the stop word is looked
\* for, and is found or not
WorkerPoll ==
    /\ wd.pc = "loop"
    /\ IF stopEv THEN wd' = [wd EXCEPT !.pc = "ended"]
       ELSE \E found \in BOOLEAN :
              wd' = [wd EXCEPT !.b = wd.sw_base,
                               !.pc = IF wd.sw_base /\ found THEN "me_check" ELSE "loop"]
    /\ UNCHANGED <<conf, lp, held, pc, stk, rv, run, fr, shared, caller, g>>

\* _mark_end in the worker: the test
WorkerMarkEndCheck ==
    /\ wd.pc = "me_check"
    /\ wd' = [wd EXCEPT !.pc = IF MarkEndOpen(end_state) THEN "me_wstate" ELSE "stop_set"]
    /\ UNCHANGED <<conf, lp, held, pc, stk, rv, run, fr, shared, caller, g>>

\* _mark_end in the worker: self.end_state = "stopped"
WorkerMarkEndState ==
    /\ wd.pc = "me_wstate"
    /\ end_state' = "stopped"
    /\ g' = Wrote
    /\ wd' = [wd EXCEPT !.pc = "me_wreason"]
    /\ UNCHANGED <<conf, lp, held, pc, stk, rv, run, fr, stopEv, pauseEv, end_reason, caller>>

\* _mark_end in the worker: self.end_reason = reason
WorkerMarkEndReason ==
    /\ wd.pc = "me_wreason"
    /\ end_reason' = WordReason
    /\ g' = Recorded(WordReason)
    /\ wd' = [wd EXCEPT !.pc = "stop_set"]
    /\ UNCHANGED <<conf, lp, held, pc, stk, rv, run, fr, stopEv, pauseEv, end_state, caller>>

\* status.emit(...); self._stop.set()
WorkerStopSet ==
    /\ wd.pc = "stop_set"
    /\ g' = Said(g, WordStatus)
    /\ stopEv' = TRUE
    /\ wd' = [wd EXCEPT !.pc = "unpause"]
    /\ UNCHANGED <<conf, lp, held, pc, stk, rv, run, fr, pauseEv, end_state, end_reason, caller>>

\* self._pause.set(); break
WorkerUnpause ==
    /\ wd.pc = "unpause"
    /\ pauseEv' = TRUE
    /\ wd' = [wd EXCEPT !.pc = "ended"]
    /\ UNCHANGED <<conf, lp, held, pc, stk, rv, run, fr, stopEv, end_state, end_reason, caller, g>>

\* ------------------------------------------- the stop-word snapshot
\* what the playback thread passes to _sw_set_snapshot: no rectangle, an
\* invalid one or one of two windows; a scale of 0, 1 or 2
SwBases == {"none", "bad", "r1", "r2"}
SwDprs == {0, 1, 2}

\* QRect(base) if (base and base.isValid()) else None
SwBase(base) == IF base \in {"none", "bad"} THEN "none" ELSE base
\* float(dpr) if (dpr and dpr > 0) else 1.0
SwDpr(dpr) == IF dpr > 0 THEN dpr ELSE 1

\* a _sw_set_snapshot that does not take the lock
SwSetSnapshotUnlocked ==
    /\ \/ /\ sw.m = "out"
          /\ \E base \in SwBases, dpr \in SwDprs :
                sw' = [sw EXCEPT !.m = "base", !.arg = <<base, dpr>>]
       \/ /\ sw.m = "base"
          /\ sw' = [sw EXCEPT !.base = SwBase(sw.arg[1]), !.m = "dpr"]
       \/ /\ sw.m = "dpr"
          /\ sw' = [sw EXCEPT !.dpr = SwDpr(sw.arg[2]), !.m = "exit",
                              !.last = <<sw.base, SwDpr(sw.arg[2])>>,
                              !.written = @ \cup {<<sw.base, SwDpr(sw.arg[2])>>}]
       \/ /\ sw.m = "exit"
          /\ sw' = [sw EXCEPT !.m = "out", !.w = IF @ = "off" THEN "out" ELSE @]
    /\ UNCHANGED <<record, env, calc, pc, stk, rv, run, fr, held, shared, caller, wd, lp, g>>

\* _sw_set_snapshot(base, dpr): with self._sw_lock: self._sw_base = ...;
\* self._sw_dpr = ...; the lock is released at the end of the with block.
\* The first call (line 219) is followed by _start_stopword_worker (line 220).
SwSetSnapshot ==
    /\ \/ /\ sw.m = "out" /\ sw.lock = "free"
          /\ \E base \in SwBases, dpr \in SwDprs :
                sw' = [sw EXCEPT !.lock = "main", !.m = "base", !.arg = <<base, dpr>>]
       \/ /\ sw.m = "base"
          /\ sw' = [sw EXCEPT !.base = SwBase(sw.arg[1]), !.m = "dpr"]
       \/ /\ sw.m = "dpr"
          /\ sw' = [sw EXCEPT !.dpr = SwDpr(sw.arg[2]), !.m = "exit",
                              !.last = <<sw.base, SwDpr(sw.arg[2])>>,
                              !.written = @ \cup {<<sw.base, SwDpr(sw.arg[2])>>}]
       \/ /\ sw.m = "exit"
          /\ sw' = [sw EXCEPT !.lock = "free", !.m = "out",
                              !.w = IF @ = "off" THEN "out" ELSE @]
    /\ UNCHANGED <<record, env, calc, pc, stk, rv, run, fr, held, shared, caller, wd, lp, g>>

\* worker, lines 144-146: with self._sw_lock: b = QRect(self._sw_base) if
\* self._sw_base else None; dpr = float(self._sw_dpr); then the pair is used
\* for the search and the worker comes back for the next poll
SwWorkerRead ==
    /\ \/ /\ sw.w = "out" /\ sw.lock = "free"
          /\ sw' = [sw EXCEPT !.lock = "worker", !.w = "rd_base", !.at = sw.last]
       \/ /\ sw.w = "rd_base"
          /\ sw' = [sw EXCEPT !.b = sw.base, !.w = "rd_dpr"]
       \/ /\ sw.w = "rd_dpr"
          /\ sw' = [sw EXCEPT !.d = sw.dpr, !.w = "exit"]
       \/ /\ sw.w = "exit"
          /\ sw' = [sw EXCEPT !.lock = "free", !.w = "got"]
       \/ /\ sw.w = "got"
          /\ sw' = [sw EXCEPT !.w = "out"]
    /\ UNCHANGED <<record, env, calc, pc, stk, rv, run, fr, held, shared, caller, wd, lp, g>>

\* ------------------------------------------------ the user interface
\* MainWindow._validate_actions_before_play: for idx, ad in
\* enumerate(rec.actions): a WordAreaAction whose word, or a WaitEventAction
\* whose expected_text, is blank after strip(): return False
ValidateActionsBeforePlay(rec) ==
    \A i \in DOMAIN rec.actions :
        LET a == rec.actions[i] IN
        /\ a.type = "word" => Strip(a.word) # ""
        /\ a.type = "wait_event" => Strip(a.expected_text) # ""

\* MainWindow.play_current: if not self._validate_actions_before_play(rec):
\* return; else the MacroPlayer is made and started
PlayCurrent ==
    /\ pc = "ui"
    /\ Goto(IF ValidateActionsBeforePlay(record) THEN "start" ELSE "rejected")
    /\ UNCHANGED <<conf, wd, lp, held, rv, run, fr, shared, caller, g>>

\* ------------------------------------------------------------ the caller
\* stop(reason) is entered; _mark_end("stopped", reason) comes first
CallerStop ==
    /\ caller.pc = "idle"
    /\ caller.calls < MaxCalls
    /\ \E r \in StopReasons :
         caller' = [pc |-> "me_check", reason |-> r, calls |-> caller.calls + 1]
    /\ UNCHANGED <<conf, wd, lp, held, pc, stk, rv, run, fr, shared, g>>

\* _mark_end in the caller's thread: the test
CallerMarkEndCheck ==
    /\ caller.pc = "me_check"
    /\ caller' = [caller EXCEPT !.pc = IF MarkEndOpen(end_state) THEN "me_wstate"
                                       ELSE "stop_set"]
    /\ UNCHANGED <<conf, wd, lp, held, pc, stk, rv, run, fr, shared, g>>

\* _mark_end in the caller's thread: self.end_state = "stopped"
CallerMarkEndState ==
    /\ caller.pc = "me_wstate"
    /\ end_state' = "stopped"
    /\ g' = Wrote
    /\ caller' = [caller EXCEPT !.pc = "me_wreason"]
    /\ UNCHANGED <<conf, wd, lp, held, pc, stk, rv, run, fr, stopEv, pauseEv, end_reason>>

\* _mark_end in the caller's thread: self.end_reason = reason
CallerMarkEndReason ==
    /\ caller.pc = "me_wreason"
    /\ end_reason' = caller.reason
    /\ g' = Recorded(caller.reason)
    /\ caller' = [caller EXCEPT !.pc = "stop_set"]
    /\ UNCHANGED <<conf, wd, lp, held, pc, stk, rv, run, fr, stopEv, pauseEv, end_state>>

\* stop(): self._stop.set()
CallerStopSet ==
    /\ caller.pc = "stop_set"
    /\ stopEv' = TRUE
    /\ caller' = [caller EXCEPT !.pc = "stop_unpause"]
    /\ g' = IF ~stopEv /\ InWaitSleep
            THEN [g EXCEPT !.stopInWait = TRUE, !.stopIdx = run.idx]
            ELSE g
    /\ UNCHANGED <<conf, wd, lp, held, pc, stk, rv, run, fr, pauseEv, end_state, end_reason>>

\* stop(): self._pause.set()
CallerStopUnpause ==
    /\ caller.pc = "stop_unpause"
    /\ pauseEv' = TRUE
    /\ caller' = [caller EXCEPT !.pc = "idle", !.reason = ""]
    /\ UNCHANGED <<conf, wd, lp, held, pc, stk, rv, run, fr, stopEv, end_state, end_reason, g>>

\* pause(): under _pause_lock, if self._pause.is_set(): self._pause.clear()
CallerPause ==
    /\ caller.pc = "idle"
    /\ caller.calls < MaxCalls
    /\ pauseEv
    /\ pauseEv' = FALSE
    /\ caller' = [caller EXCEPT !.calls = @ + 1]
    /\ UNCHANGED <<conf, wd, lp, held, pc, stk, rv, run, fr, stopEv, end_state, end_reason, g>>

\* resume(): under _pause_lock, if not self._pause.is_set(): self._pause.set()
CallerResume ==
    /\ caller.pc = "idle"
    /\ caller.calls < MaxCalls
    /\ ~pauseEv
    /\ pauseEv' = TRUE
    /\ caller' = [caller EXCEPT !.calls = @ + 1]
    /\ UNCHANGED <<conf, wd, lp, held, pc, stk, rv, run, fr, stopEv, end_state, end_reason, g>>

\* ------------------------------------------------------- specification
PlayerStep ==
    \/ RunStart \/ LoopTop \/ ForExit \/ DispatchWait \/ WaitRet
    \/ SmoothMove \/ SmoothMoveGate \/ SmoothMoveSlept \/ Click \/ ClickUp
    \/ PressComboDown \/ PressComboHeld \/ PressComboUp \/ PressComboDone
    \/ PerformTriggerMouse \/ PerformTriggerSettled \/ PerformTriggerRelease
    \/ PerformTriggerKeys \/ PerformTriggerTimes \/ PerformTriggerTimesDelayed
    \/ DispatchArea \/ AreaMoved \/ AreaDone
    \/ DispatchKey \/ KeyRep \/ KeySlept \/ KeyDelayed \/ KeyMods \/ KeySettled
    \/ KeyRelease \/ KeyFired
    \/ WaitIfPaused \/ WaitIfPausedGate \/ WaitIfPausedSleep \/ WaitIfPausedRet
    \/ SleepChecked \/ SleepGate \/ SleepChunk
    \/ PassEnd \/ CycleRet
    \/ Finally \/ EmitFinished

CallerStep ==
    \/ CallerStop \/ CallerMarkEndCheck \/ CallerMarkEndState \/ CallerMarkEndReason
    \/ CallerStopSet \/ CallerStopUnpause \/ CallerPause \/ CallerResume

Next == PlayerStep \/ CallerStep

Spec == Init /\ [][Next]_vars

\* a record that is one long press, on a host that may refuse the key "x"
InitLong == Start(LongRecords, {Host(w, b, FALSE, FALSE) : w \in BOOLEAN, b \in {"none", "x"}})

PlayerLongStep ==
    \/ RunStart \/ LoopTop \/ ForExit \/ DispatchKeyLong
    \/ LpLoop \/ LpGate \/ LpWaited \/ LpFire \/ LpBegan \/ LpEnded \/ LpFinally
    \/ LongRet
    \/ PressHoldMouse \/ PressHoldButton \/ PressHoldKeys
    \/ ReleaseHoldMouse \/ ReleaseHoldKeys
    \/ WaitIfPaused \/ WaitIfPausedGate \/ WaitIfPausedSleep \/ WaitIfPausedRet
    \/ SleepChecked \/ SleepGate \/ SleepChunk
    \/ PassEnd \/ Except \/ MarkEndCheck \/ MarkEndState \/ MarkEndReason
    \/ Finally \/ EmitFinished

NextLong == PlayerLongStep \/ CallerStep

SpecLongPress == InitLong /\ [][NextLong]_vars

\* A long press whose second item begins while the first is down and ends
\* after it, both with the key "a" in their triggers; with the records above
OverlapRecords ==
    { Record(<<KeyLong(<<
          LongItem(Trigger("keys", <<"a">>, "none"), Fixed(20), "after_prev", Fixed(0)),
          LongItem(Trigger("keys", <<"a", "Ctrl">>, "none"), Fixed(20), "from_start", Fixed(10))
        >>)>>, NoRepeat, FALSE) }

InitOverlap ==
    Start(LongRecords \cup OverlapRecords,
          {Host(w, b, FALSE, FALSE) : w \in BOOLEAN, b \in {"none", "x"}})

SpecOverlap == InitOverlap /\ [][NextLong]_vars

\* a base area, then a long press, with the stop-word worker running, on a
\* host where the bound window may be missing, at the start or at the base
\* area, and the key "x" may be refused
EndRecords ==
    { Record(<<BaseAreaAction(FALSE),
               KeyLong(<<
                 LongItem(Trigger("keys", <<"x", "Ctrl">>, "none"), Fixed(10), "after_prev", Fixed(0)),
                 LongItem(Trigger("mouse", <<"Shift">>, "left"), Fixed(0), "from_start", Fixed(10))
               >>)>>, NoRepeat, FALSE) }

InitEnd ==
    Start(EndRecords,
          {[Host(FALSE, b, m, TRUE) EXCEPT !.lost = l] :
               b \in {"none", "x"}, m \in BOOLEAN, l \in BOOLEAN})

WorkerStep ==
    \/ WorkerPoll \/ WorkerMarkEndCheck \/ WorkerMarkEndState \/ WorkerMarkEndReason
    \/ WorkerStopSet \/ WorkerUnpause

NextEnd ==
    PlayerLongStep \/ StartErr \/ DispatchBase \/ BaseErr \/ CallerStep \/ WorkerStep

SpecEnd == InitEnd /\ [][NextEnd]_vars

\* the steps of a stop() that has been entered
CallerStopRuns ==
    \/ CallerMarkEndCheck \/ CallerMarkEndState \/ CallerMarkEndReason
    \/ CallerStopSet \/ CallerStopUnpause

\* Both threads are scheduled: the playback thread takes its next step when
\* it has one, and a stop() that was entered runs to its end.
SpecLive == Spec /\ WF_vars(PlayerStep) /\ WF_vars(CallerStopRuns)

\* The records the text search, the fail branches and the repeat accounting
\* are checked on.  The resolver may find the word or not at every attempt.
WordRecords ==
    { Record(<<WordAreaAction("ok", FALSE, 3, "error", <<>>, "none"),
               WaitAction(Fixed(10))>>, NoRepeat, TRUE),
      Record(<<WordAreaAction("go", TRUE, 1, "error", <<WaitAction(Fixed(5))>>, "stop"),
               WaitAction(Fixed(10))>>, NoRepeat, TRUE),
      Record(<<WordAreaAction("hp", FALSE, 2, "retry", <<>>, "none")>>, NoRepeat, TRUE),
      Record(<<WaitAction(Fixed(5)),
               WordAreaAction("no", FALSE, 1, "action",
                              <<WaitAction(Fixed(5)), WaitAction(Fixed(10))>>, "stop"),
               WaitAction(Fixed(5))>>, RepeatSettings(TRUE, 2, Fixed(10)), TRUE),
      Record(<<WaitAction(Fixed(5)),
               WordAreaAction("up", FALSE, 1, "action", <<WaitAction(Fixed(5))>>, "repeat"),
               WaitAction(Fixed(5))>>, RepeatSettings(TRUE, 3, Fixed(10)), TRUE),
      Record(<<WaitAction(Fixed(5)),
               WordAreaAction("up", FALSE, 1, "action", <<>>, "repeat"),
               WaitAction(Fixed(5))>>, NoRepeat, TRUE),
      Record(<<WordAreaAction("on", FALSE, 2, "action", <<WaitAction(Fixed(5))>>, "none"),
               WordAreaAction("up", FALSE, 1, "action", <<>>, "repeat"),
               WaitAction(Fixed(5))>>, RepeatSettings(TRUE, 2, Fixed(0)), TRUE) }
    \cup { Record(<<WaitAction(Fixed(5)), WaitAction(Fixed(5))>>,
                  RepeatSettings(e, n, Delay("range", 0, 10)), TRUE) :
               e \in BOOLEAN, n \in 0..3 }

\* any of those records started at its first action, or one of three
\* actions started at its second, with a caller that may call stop() and
\* never pauses
InitWord ==
    \/ Start(WordRecords, {Host(FALSE, "none", FALSE, FALSE)})
    \/ Start({r \in WordRecords : Len(r.actions) = 3},
             {[Host(FALSE, "none", FALSE, FALSE) EXCEPT !.start_index = 1]})

PlayerWordStep ==
    \/ RunStart \/ LoopTop \/ ForExit \/ DispatchWait \/ WaitRet
    \/ DispatchWord \/ WordInfinite \/ WordFinite \/ WordExhausted
    \/ InlineActions \/ ApplyOnFailPostMode \/ WordDone
    \/ WaitIfPaused \/ WaitIfPausedGate \/ WaitIfPausedRet
    \/ SleepChecked \/ SleepGate \/ SleepChunk
    \/ PassEnd \/ CycleRet \/ MarkEndCheck \/ MarkEndState \/ MarkEndReason
    \/ Finally \/ EmitFinished

NextWord == PlayerWordStep \/ CallerStop \/ CallerStopRuns

SpecWord == InitWord /\ [][NextWord]_vars

\* the playback thread is scheduled, and a stop() that was entered runs on
SpecWordLive == SpecWord /\ WF_vars(PlayerWordStep) /\ WF_vars(CallerStopRuns)

\* The runs of SpecWord, and the records of three actions started with a start
\* index that is negative, that of the last action, or past the last action
StartIndexes == {-1, 2, 3}

InitStart ==
    \/ InitWord
    \/ Start({r \in WordRecords : Len(r.actions) = 3},
             {[Host(FALSE, "none", FALSE, FALSE) EXCEPT !.start_index = i] :
                  i \in StartIndexes})

SpecStart == InitStart /\ [][NextWord]_vars

\* Records with text searches and event waits at the top level and in fail
\* branches, some of them with a blank text.
PlayRecords ==
    { Record(<<WordAreaAction(" ", FALSE, 1, "error", <<>>, "none")>>, NoRepeat, TRUE),
      Record(<<WaitAction(Fixed(5)), WaitEventAction("", 100, TRUE)>>, NoRepeat, TRUE),
      Record(<<WordAreaAction("ok", FALSE, 1, "action",
                 <<WordAreaAction("", TRUE, 1, "error", <<>>, "none")>>, "none"),
               WaitAction(Fixed(5))>>, NoRepeat, TRUE),
      Record(<<WordAreaAction("ok", FALSE, 1, "action",
                 <<WaitEventAction(" ", 100, TRUE)>>, "stop"),
               WordAreaAction("er", FALSE, 1, "error", <<>>, "none")>>, NoRepeat, TRUE),
      Record(<<WaitEventAction("hi", 50, TRUE),
               WordAreaAction("ok", FALSE, 1, "action",
                 <<WaitAction(Fixed(5)),
                   WordAreaAction("in", FALSE, 2, "error", <<>>, "none"),
                   WaitEventAction("ev", 100, TRUE)>>, "none"),
               WaitEventAction("no", 100, FALSE),
               WaitAction(Fixed(5))>>, RepeatSettings(TRUE, 2, Fixed(5)), TRUE),
      Record(<<WordAreaAction("ok", FALSE, 1, "action",
                 <<WordAreaAction("in", FALSE, 1, "action", <<>>, "repeat"),
                   WaitAction(Fixed(5))>>, "stop"),
               WaitAction(Fixed(5))>>, RepeatSettings(TRUE, 2, Fixed(0)), TRUE),
      Record(<<WordAreaAction("ok", FALSE, 1, "action",
                 <<WordAreaAction("in", FALSE, 1, "action", <<>>, "stop"),
                   WaitAction(Fixed(5))>>, "none"),
               WaitAction(Fixed(5))>>, NoRepeat, TRUE),
      Record(<<WordAreaAction("ok", FALSE, 2, "retry", <<>>, "none")>>, NoRepeat, TRUE),
      Record(<<WordAreaAction("ok", FALSE, 1, "action",
                 <<WordAreaAction("in", FALSE, 1, "retry", <<>>, "none")>>, "none")>>,
             NoRepeat, TRUE) }

\* before play_current: a host with OCR and no stop word, and a host without
\* OCR where a stop word is configured
PlayHosts ==
    {Host(FALSE, "none", FALSE, FALSE), [Host(FALSE, "none", FALSE, TRUE) EXCEPT !.ocr = FALSE]}

InitPlay == StartAt(PlayRecords, PlayHosts, "ui")

PlayerPlayStep ==
    \/ RunStart \/ LoopTop \/ ForExit \/ DispatchWait \/ WaitRet
    \/ DispatchWord \/ WordFinite \/ WordExhausted \/ InlineActions \/ ExecuteInlineAction
    \/ DispatchWaitEvent \/ ApplyOnFailPostMode \/ WordDone
    \/ WaitIfPaused \/ WaitIfPausedGate \/ WaitIfPausedRet
    \/ SleepChecked \/ SleepGate \/ SleepChunk
    \/ PassEnd \/ CycleRet \/ MarkEndCheck \/ MarkEndState \/ MarkEndReason
    \/ Finally \/ EmitFinished

NextPlay == PlayCurrent \/ PlayerPlayStep \/ CallerStop \/ CallerStopRuns

SpecPlay == InitPlay /\ [][NextPlay]_vars

\* Records with a base area at the top level and in a fail branch, before and
\* after the text search that owns the branch
BaseRecords ==
    { Record(<<BaseAreaAction(FALSE),
               WordAreaAction("ok", FALSE, 1, "action",
                 <<BaseAreaAction(FALSE), WaitAction(Fixed(5))>>, "none"),
               WaitAction(Fixed(5))>>, NoRepeat, TRUE),
      Record(<<WordAreaAction("ok", FALSE, 1, "action",
                 <<WaitAction(Fixed(5)), BaseAreaAction(FALSE)>>, "none"),
               BaseAreaAction(FALSE)>>, NoRepeat, TRUE) }

\* Windows hosts: no window bound, a bound window that is found, a bound
\* window that is found when the run starts and has gone afterwards
BaseHosts ==
    { Host(TRUE, "none", FALSE, FALSE),
      [Host(TRUE, "none", FALSE, FALSE) EXCEPT !.exe = TRUE],
      Host(TRUE, "none", TRUE, FALSE) }

InitBase == StartAt(PlayRecords, PlayHosts, "ui") \/ StartAt(BaseRecords, BaseHosts, "ui")

NextBase == NextPlay \/ DispatchBase \/ BaseErr

SpecBase == InitBase /\ [][NextBase]_vars

\* A base area of 100 x 100, an area inside it that is clicked with the left
\* mouse button (multiplier and delay at their defaults) and a fixed wait of
\* 0.2 s, not repeated
SceneRecord ==
    Record(<<BaseAreaAction(FALSE),
             AreaAction(TRUE, TRUE, DEFAULT_TRIGGER, 1, Fixed(100)),
             WaitAction(Fixed(200))>>, NoRepeat, TRUE)

\* that record and the records of Init, on hosts where the bound window of a
\* base area may be missing
InitScene ==
    Start(Records \cup {SceneRecord},
          {Host(w, "none", FALSE, FALSE) : w \in BOOLEAN} \cup {Host(FALSE, "none", TRUE, FALSE)})

NextScene ==
    \/ PlayerStep \/ DispatchBase \/ BaseErr
    \/ MarkEndCheck \/ MarkEndState \/ MarkEndReason \/ CallerStep

SpecScene == InitScene /\ [][NextScene]_vars

\* The faults of a run: the import of pynput fails, an entry of the record
\* cannot be parsed, the host refuses the key "x" inside a long press; with the
\* stop-word worker, and a bound window that may be missing at the start
FaultRecords ==
    EndRecords \cup {Record(<<WaitAction(Fixed(10)), Malformed>>, NoRepeat, FALSE)}

InitFault ==
    Start(FaultRecords,
          {[Host(FALSE, b, FALSE, TRUE) EXCEPT !.lost = l, !.pynput = p] :
               b \in {"none", "x"}, l \in BOOLEAN, p \in BOOLEAN})

NextFault == PlayerLongStep \/ StartErr \/ DispatchBase \/ CallerStep \/ WorkerStep

SpecFault == InitFault /\ [][NextFault]_vars

\* ------------------------------------------------ Delay.from_dict, sample
\* the dicts Delay.from_dict is checked on: each key present or not, a mode
\* that is known or not, a and b negative, zero or positive
DelayA == {-10, -5, 0, 5, 10}
DelayDicts ==
    { m @@ a @@ b :
        m \in {<<>>} \cup {"mode" :> x : x \in {"fixed", "range", "random"}},
        a \in {<<>>} \cup {"a" :> x : x \in DelayA},
        b \in {<<>>} \cup {"b" :> x : x \in DelayA} }

InitDelay ==
    /\ Idle({SceneRecord}, {Host(FALSE, "none", FALSE, FALSE)}, "calc")
    /\ \E d \in DelayDicts : calc = [at |-> "dict", arg |-> d, delay |-> Fixed(0), out |-> 0]

\* delay = Delay.from_dict(d)
CalcDelayFromDict ==
    /\ calc.at = "dict"
    /\ calc' = [calc EXCEPT !.at = "delay", !.delay = DelayFromDict(calc.arg)]
    /\ UNCHANGED <<record, env, sw, pc, stk, rv, run, fr, held, shared, caller, wd, lp, g>>

\* t = delay.sample()
CalcDelaySample ==
    /\ calc.at = "delay"
    /\ \E t \in DelaySample(calc.delay) : calc' = [calc EXCEPT !.at = "sampled", !.out = t]
    /\ UNCHANGED <<record, env, sw, pc, stk, rv, run, fr, held, shared, caller, wd, lp, g>>

NextDelay == CalcDelayFromDict \/ CalcDelaySample

SpecDelay == InitDelay /\ [][NextDelay]_vars

\* ------------------------------------------- geometry.rect_to_rel, rel_to_rect
\* QRect: the edges, right and bottom inclusive; width() = right - left + 1
Rect(left, top, right, bottom) == [left |-> left, top |-> top, right |-> right, bottom |-> bottom]
Width(r) == r.right - r.left + 1
Height(r) == r.bottom - r.top + 1

\* QRect.normalized(): a rectangle with right >= left and bottom >= top is
\* returned as it is; else the edges are swapped (Qt 6: x1 = x2 + 1, x2 = x1 - 1)
Normalized(r) ==
    [left |-> IF r.right < r.left THEN r.right + 1 ELSE r.left,
     right |-> IF r.right < r.left THEN r.left - 1 ELSE r.right,
     top |-> IF r.bottom < r.top THEN r.bottom + 1 ELSE r.top,
     bottom |-> IF r.bottom < r.top THEN r.top - 1 ELSE r.bottom]

\* a float that is a quotient of two integers, d > 0: the pair <<n, d>>
\* _clamp01(v): 0.0 if v < 0.0 else (1.0 if v > 1.0 else v)
Clamp01(v) == IF v[1] < 0 THEN <<0, v[2]>> ELSE IF v[1] > v[2] THEN <<v[2], v[2]>> ELSE v

\* int(round(n / d)), n >= 0, d > 0: round() rounds a half to the even integer
Round(n, d) ==
    LET f == n \div d
        r == n % d
    IN  IF 2 * r < d THEN f
        ELSE IF 2 * r > d THEN f + 1
        ELSE IF f % 2 = 0 THEN f ELSE f + 1

\* a rect_to_rel that does not clamp
RectToRelUnclamped(base, r) ==
    LET b == Normalized(base)
        n == Normalized(r)
        denom_x == Max(1, Width(b) - 1)
        denom_y == Max(1, Height(b) - 1)
    IN  [rx1 |-> <<n.left - b.left, denom_x>>, ry1 |-> <<n.top - b.top, denom_y>>,
         rx2 |-> <<n.right - b.left, denom_x>>, ry2 |-> <<n.bottom - b.top, denom_y>>]

\* rect_to_rel(base, r): both normalized; denom_x = max(1, base.width() - 1),
\* denom_y alike; each edge of r relative to base.left / base.top, divided by
\* the denominator and clamped to [0, 1]
RectToRel(base, r) ==
    LET b == Normalized(base)
        n == Normalized(r)
        denom_x == Max(1, Width(b) - 1)
        denom_y == Max(1, Height(b) - 1)
    IN  [rx1 |-> Clamp01(<<n.left - b.left, denom_x>>),
         ry1 |-> Clamp01(<<n.top - b.top, denom_y>>),
         rx2 |-> Clamp01(<<n.right - b.left, denom_x>>),
         ry2 |-> Clamp01(<<n.bottom - b.top, denom_y>>)]

\* rel_to_rect(base, rx1, ry1, rx2, ry2): the four are clamped; x1 = base.left()
\* + int(round(rx1 * denom_x)), ...; QRect(QPoint(x1, y1), QPoint(x2, y2)).normalized()
RelToRect(base, rel) ==
    LET b == Normalized(base)
        denom_x == Max(1, Width(b) - 1)
        denom_y == Max(1, Height(b) - 1)
        rx1 == Clamp01(rel.rx1)
        ry1 == Clamp01(rel.ry1)
        rx2 == Clamp01(rel.rx2)
        ry2 == Clamp01(rel.ry2)
    IN  Normalized(Rect(b.left + Round(rx1[1] * denom_x, rx1[2]),
                        b.top + Round(ry1[1] * denom_y, ry1[2]),
                        b.left + Round(rx2[1] * denom_x, rx2[2]),
                        b.top + Round(ry2[1] * denom_y, ry2[2])))

\* the base rectangles and the rectangles the two functions are checked on:
\* bases of 1 to 4 units a side, rectangles inside a base, across its edges
\* and outside it
GeomBases == {Rect(l, 0, l + w - 1, h - 1) : l \in {0, 2}, w \in 1 .. 4, h \in 2 .. 3}
GeomRects ==
    {Rect(x1, y1, x2, y2) : x1 \in -1 .. 6, x2 \in -1 .. 6, y1 \in -1 .. 3, y2 \in -1 .. 3}

InitGeom ==
    /\ Idle({SceneRecord}, {Host(FALSE, "none", FALSE, FALSE)}, "calc")
    /\ \E b \in GeomBases :
       \E r \in {q \in GeomRects : q.left <= q.right /\ q.top <= q.bottom} :
          calc = [at |-> "rect", base |-> b, rect |-> r, rel |-> RectToRel(b, b), out |-> r]

\* rel = rect_to_rel(base, rect)
CalcRectToRel ==
    /\ calc.at = "rect"
    /\ calc' = [calc EXCEPT !.at = "rel", !.rel = RectToRel(calc.base, calc.rect)]
    /\ UNCHANGED <<record, env, sw, pc, stk, rv, run, fr, held, shared, caller, wd, lp, g>>

\* out = rel_to_rect(base, *rel)
CalcRelToRect ==
    /\ calc.at = "rel"
    /\ calc' = [calc EXCEPT !.at = "abs", !.out = RelToRect(calc.base, calc.rel)]
    /\ UNCHANGED <<record, env, sw, pc, stk, rv, run, fr, held, shared, caller, wd, lp, g>>

NextGeom == CalcRectToRel \/ CalcRelToRect

SpecGeom == InitGeom /\ [][NextGeom]_vars

\* --------------------------------- normalize_trigger, KeyAction.from_dict
\* normalize_trigger(spec): kind = spec.get("kind", "mouse"), "mouse" when it
\* is neither "mouse" nor "keys"; keys: the first 10; mouse_button: with kind
\* "mouse" one of the three buttons, "left" for any other value, else None
\* ("none" stands for None, as in Trigger)
NormalizeTriggerDict(spec) ==
    LET k == DictGet(spec, "kind", "mouse")
        kind == IF k \notin {"mouse", "keys"} THEN "mouse" ELSE k
        keys == DictGet(spec, "keys", <<>>)
        mb == DictGet(spec, "mouse_button", "none")
    IN  Trigger(kind, SubSeq(keys, 1, Min(10, Len(keys))),
                IF kind = "mouse"
                THEN (IF mb \notin {"left", "middle", "right"} THEN "left" ELSE mb)
                ELSE "none")

\* KeyAction.from_dict(d): kind = d.get("kind", "keys"), "keys" when it is
\* neither; mb = d.get("mouse_button", None), None when it is no button name;
\* delay from the dict or Delay("fixed", 0.1, 0.1); keys: the first 10;
\* multiplier = max(1, int(d.get("multiplier", 1))) (press mode "normal")
KeyActionFromDict(d) ==
    LET k == DictGet(d, "kind", "keys")
        mb == DictGet(d, "mouse_button", "none")
        keys == DictGet(d, "keys", <<>>)
    IN  KeyAction(IF k \notin {"keys", "mouse"} THEN "keys" ELSE k,
                  SubSeq(keys, 1, Min(10, Len(keys))),
                  IF mb \notin {"none", "left", "middle", "right"} THEN "none" ELSE mb,
                  Max(1, DictGet(d, "multiplier", 1)),
                  IF "delay" \in DOMAIN d THEN DelayFromDict(d.delay) ELSE Fixed(100))

\* the dicts the two functions are checked on: each key present or not, a
\* kind and a button that are known or not
TriggerDicts ==
    { k @@ m @@ c :
        k \in {<<>>} \cup {"kind" :> x : x \in {"mouse", "keys", "touch"}},
        m \in {<<>>} \cup {"mouse_button" :> x : x \in {"none", "left", "middle", "right", "x1"}},
        c \in {<<>>} \cup {"keys" :> x : x \in {<<>>, <<"a">>, <<"Shift", "a">>}} }

InitTrigger ==
    /\ Idle({SceneRecord}, {Host(FALSE, "none", FALSE, FALSE)}, "calc")
    /\ \E d \in TriggerDicts :
          calc = [at |-> "dict", arg |-> d, out |-> DEFAULT_TRIGGER,
                  act |-> KeyAction("keys", <<>>, "none", 1, Fixed(100)), how |-> ""]

\* out = normalize_trigger(d)
CalcNormalizeTrigger ==
    /\ calc.at = "dict"
    /\ calc' = [calc EXCEPT !.at = "trigger", !.out = NormalizeTriggerDict(calc.arg)]
    /\ UNCHANGED <<record, env, sw, pc, stk, rv, run, fr, held, shared, caller, wd, lp, g>>

\* act = KeyAction.from_dict(d)
CalcKeyActionFromDict ==
    /\ calc.at = "dict"
    /\ calc' = [calc EXCEPT !.at = "action", !.act = KeyActionFromDict(calc.arg)]
    /\ UNCHANGED <<record, env, sw, pc, stk, rv, run, fr, held, shared, caller, wd, lp, g>>

\* run(), "do the actual action": if a.kind == "mouse" and a.mouse_button:
\* the modifiers and click(a.mouse_button); else: press_combo(a.keys)
CalcRealize ==
    /\ calc.at = "action"
    /\ calc' = [calc EXCEPT !.at = "realized",
                            !.how = IF KeyClicks(calc.act) THEN "click" ELSE "combo"]
    /\ UNCHANGED <<record, env, sw, pc, stk, rv, run, fr, held, shared, caller, wd, lp, g>>

NextTrigger == CalcNormalizeTrigger \/ CalcKeyActionFromDict \/ CalcRealize

SpecTrigger == InitTrigger /\ [][NextTrigger]_vars

\* the snapshot of the stop-word worker alone: the playback thread calls
\* _sw_set_snapshot again and again with any arguments, the worker reads
\* ------------------------------- models.py: the choice among the matches
\* a match of a recognition pass: (gy1, gx1, gx2, gy2, score), gy2 left out
Match(y1, x1, x2, score) == [y1 |-> y1, x1 |-> x1, x2 |-> x2, score |-> score]

\* key=lambda b: (-b[4], b[0], b[1])
ScoreBefore(a, b) ==
    \/ a.score > b.score
    \/ a.score = b.score /\ (a.y1 < b.y1 \/ (a.y1 = b.y1 /\ a.x1 < b.x1))

\* key=lambda b: (b[0], b[1])
VisualBefore(a, b) == a.y1 < b.y1 \/ (a.y1 = b.y1 /\ a.x1 < b.x1)

RECURSIVE SortScore(_)
\* matches.sort(key=lambda b: (-b[4], b[0], b[1])): list.sort is stable
SortScore(s) ==
    IF s = <<>> THEN <<>>
    ELSE LET e == s[Len(s)]
             t == SortScore(SubSeq(s, 1, Len(s) - 1))
             k == Cardinality({i \in DOMAIN t : ~ScoreBefore(e, t[i])})
         IN  SubSeq(t, 1, k) \o <<e>> \o SubSeq(t, k + 1, Len(t))

RECURSIVE SortVisual(_)
\* best_matches.sort(key=lambda b: (b[0], b[1]))
SortVisual(s) ==
    IF s = <<>> THEN <<>>
    ELSE LET e == s[Len(s)]
             t == SortVisual(SubSeq(s, 1, Len(s) - 1))
             k == Cardinality({i \in DOMAIN t : ~VisualBefore(e, t[i])})
         IN  SubSeq(t, 1, k) \o <<e>> \o SubSeq(t, k + 1, Len(t))

RECURSIVE BestMatches(_, _)
\* for psm in psm_list: (no tokens: continue); if expected_count > 0 and
\* len(matches) < expected_count: continue; matches.sort(...); best_matches =
\* matches; break.  passes: the matches of the passes still to come
BestMatches(passes, expected_count) ==
    IF passes = <<>> THEN <<>>
    ELSE IF Head(passes) = <<>> \/ (expected_count > 0 /\ Len(Head(passes)) < expected_count)
    THEN BestMatches(Tail(passes), expected_count)
    ELSE SortScore(Head(passes))

\* the choice without the sort into reading order
ResolveTargetUnsorted(passes, index, count) ==
    LET best_matches == BestMatches(passes, Max(0, count))
        idx0 == Min(Max(0, index - 1), Len(best_matches) - 1)
    IN  IF best_matches = <<>> THEN <<>> ELSE <<best_matches[idx0 + 1]>>

\* expected_count = max(0, int(self.count)); if not best_matches: return None;
\* the sort; idx0 = max(0, int(self.index) - 1); if idx0 >= len(best_matches):
\* idx0 = len(best_matches) - 1; best_matches[idx0] (<<>>: None)
ResolveTarget(passes, index, count) ==
    LET best_matches == SortVisual(BestMatches(passes, Max(0, count)))
        idx0 == Max(0, index - 1)
        i == IF idx0 >= Len(best_matches) THEN Len(best_matches) - 1 ELSE idx0
    IN  IF best_matches = <<>> THEN <<>> ELSE <<best_matches[i + 1]>>

\* the matches a pass may give: two lines of two places each, two matches at
\* one place; up to three of them in the first pass, up to one in the second
PassMatches ==
    {Match(0, 0, 1, 1), Match(0, 2, 3, 2), Match(0, 2, 4, 1), Match(1, 0, 1, 2), Match(1, 2, 3, 1)}

MatchLists(n) == UNION {[1..k -> PassMatches] : k \in 0..n}

InitResolve ==
    /\ Idle({SceneRecord}, {Host(FALSE, "none", FALSE, FALSE)}, "calc")
    /\ \E first \in MatchLists(3), second \in MatchLists(1), index \in 0..4, count \in -1..3 :
          calc = [at |-> "matches", passes |-> <<first, second>>, index |-> index,
                  count |-> count, out |-> <<>>]

\* the end of resolve_target_rect_global, from the matches of the passes on
CalcResolveTarget ==
    /\ calc.at = "matches"
    /\ calc' = [calc EXCEPT !.at = "resolved",
                            !.out = ResolveTarget(calc.passes, calc.index, calc.count)]
    /\ UNCHANGED <<record, env, sw, pc, stk, rv, run, fr, held, shared, caller, wd, lp, g>>

NextResolve == CalcResolveTarget

SpecResolve == InitResolve /\ [][NextResolve]_vars

\* --------------------------- models.py: the filters on an OCR candidate
\* _threshold_for_target(tlen), in hundredths
ThresholdForTarget(tlen) == IF tlen >= 12 THEN 82 ELSE IF tlen >= 8 THEN 85 ELSE 90

\* MIN_LEN = max(4, int(tlen * 0.60))
MinLen(tlen) == Max(4, (tlen * 60) \div 100)

\* MAX_LEN = int(tlen * 1.40) + 2
MaxLen(tlen) == (tlen * 140) \div 100 + 2

RECURSIVE MatchingChars(_, _)
\* difflib.SequenceMatcher: the sizes of the matching blocks: the longest
\* common block (the earliest in a, then the earliest in b), and the same to
\* its left and to its right
MatchingChars(a, b) ==
    LET blocks == {t \in (DOMAIN a) \X (DOMAIN b) \X (1..Min(Len(a), Len(b))) :
                      /\ t[1] + t[3] - 1 <= Len(a)
                      /\ t[2] + t[3] - 1 <= Len(b)
                      /\ SubSeq(a, t[1], t[1] + t[3] - 1) = SubSeq(b, t[2], t[2] + t[3] - 1)}
    IN  IF blocks = {} THEN 0
        ELSE LET m == CHOOSE t \in blocks : \A u \in blocks :
                         \/ t[3] > u[3]
                         \/ t[3] = u[3] /\ (t[1] < u[1] \/ (t[1] = u[1] /\ t[2] <= u[2]))
             IN  m[3] + MatchingChars(SubSeq(a, 1, m[1] - 1), SubSeq(b, 1, m[2] - 1))
                      + MatchingChars(SubSeq(a, m[1] + m[3], Len(a)),
                                      SubSeq(b, m[2] + m[3], Len(b)))

\* the candidate of one OCR token against the target, both normalized:
\* len > MAX_LEN: break; len < MIN_LEN: continue; abs(len - tlen) >
\* max(2, int(tlen * 0.30)): continue; ratio = 2.0 * M / T < THR: continue;
\* else the candidate is appended to tokens
Accepted(cand_norm, target_norm) ==
    LET tlen == Len(target_norm)
        clen == Len(cand_norm)
        diff == IF clen >= tlen THEN clen - tlen ELSE tlen - clen
    IN  /\ ~(clen > MaxLen(tlen))
        /\ ~(clen < MinLen(tlen))
        /\ ~(diff > Max(2, (tlen * 30) \div 100))
        /\ ~(200 * MatchingChars(cand_norm, target_norm)
                < ThresholdForTarget(tlen) * (clen + tlen))

\* normalized texts: one letter repeated up to thirteen times, and words of
\* two letters
NormTexts ==
    {[i \in 1..n |-> "a"] : n \in 1..13}
      \cup {<<"a", "b">>, <<"b", "a">>, <<"a", "b", "a">>, <<"a", "b", "a", "b">>,
             <<"a", "b", "b", "a">>, <<"b", "a", "b", "a", "b">>,
             <<"a", "a", "a", "a", "b", "a", "a", "a", "a">>}

InitAccept ==
    /\ Idle({SceneRecord}, {Host(FALSE, "none", FALSE, FALSE)}, "calc")
    /\ \E c \in NormTexts, t \in NormTexts :
          calc = [at |-> "cand", cand |-> c, target |-> t, out |-> FALSE]

\* the filters are applied to the candidate
CalcAccepted ==
    /\ calc.at = "cand"
    /\ calc' = [calc EXCEPT !.at = "judged", !.out = Accepted(calc.cand, calc.target)]
    /\ UNCHANGED <<record, env, sw, pc, stk, rv, run, fr, held, shared, caller, wd, lp, g>>

NextAccept == CalcAccepted

SpecAccept == InitAccept /\ [][NextAccept]_vars

InitSnap == Start(EndRecords, {Host(FALSE, "none", FALSE, TRUE)})

NextSnap == SwSetSnapshot \/ SwWorkerRead

SpecSnap == InitSnap /\ [][NextSnap]_vars

\* ------------------------------------------------------------------ claims
\* inside the _sleep_checked of a top-level Wait, and on the way out of run()
WaitSleeping == {"sc", "sc_gate", "sc_sleep", "wp", "wp_pause", "wp_ret", "wait_ret"}
WaitUnwind == {"pass_end", "finally", "emit_finished", "finished"}

\* C1: a stop() that sets the cancel signal while the playback thread sleeps
\* inside a top-level Wait (and meets no pause poll afterwards) ends the run
\* within one sleep chunk: at most one chunk is slept after the request, the
\* thread is still in that Wait or past it with nothing dispatched, the end
\* state is Stopped, and the run reaches its terminal state.
C1_StopCutsWaitSafe ==
    (g.stopInWait /\ g.latPoll = 0) =>
        /\ g.lat <= Chunk
        /\ \/ pc \in WaitSleeping /\ run.idx = g.stopIdx
           \/ pc = "for_head" /\ run.idx = g.stopIdx + 1 /\ fr.remaining = 0
           \/ pc \in WaitUnwind
        /\ end_state = "stopped"
C2_AllReleasedOnCancel == (pc = "finished" /\ stopEv) => held = {}

\* the places a sampled delay returns to
DelayReturns == {"wait_ret", "key_slept", "cycle_ret", "ptt_delayed"}

\* C8: time spent paused is not counted toward a delay: what is still owed
\* of a delay is always the delay minus the time slept outside pauses, and a
\* delay that ends uncancelled has been slept in full, however long the
\* pause in the middle of it was.
C8_PauseKeepsDelay ==
    /\ g.slept + fr.remaining = g.req
    /\ (pc \in DelayReturns /\ rv) => g.slept = g.req
C8_Witness ==
    /\ pc = "wait_ret" /\ rv
    /\ g.paused >= PausePoll /\ 0 < g.mid /\ g.mid < g.req /\ g.slept = g.req

\* C10: a stop() is honoured without a resume, whatever pause() and resume()
\* calls surround it: once stop() has been entered the run reaches its
\* terminal state, and once the cancel signal is set the playback thread
\* spends at most the one pause poll whose test it had already begun.
C10_StopBeatsPause ==
    /\ (caller.pc # "idle" ~> pc = "finished")
    /\ [](g.latPoll <= PausePoll)
C10_Witness == pc = "finished" /\ ~pauseEv /\ stopEv /\ g.polls > 0 /\ g.paused > 0

\* C3: when the long press executor has returned, or has let an exception
\* through to run(), no hold is registered any more and nothing it pressed
\* is still down.
C3_HoldsReleased == pc \in {"long_ret", "except"} => (lp.active = {} /\ held = {})

\* C4: the events are emitted in the order of (time, index of the item, begin
\* before end): a later event never has an earlier time; at equal times never
\* a lower index; and at equal time and index the begin comes first.  An
\* executor that ran to its end has emitted every event.
C4_EventOrder ==
    /\ \A i, j \in DOMAIN lp.log :
          i < j =>
            /\ lp.log[i].time <= lp.log[j].time
            /\ lp.log[i].time = lp.log[j].time => lp.log[i].idx <= lp.log[j].idx
            /\ (lp.log[i].time = lp.log[j].time /\ lp.log[i].idx = lp.log[j].idx)
                  => (lp.log[i].type = "start" /\ lp.log[j].type = "end")
    /\ (pc = "long_ret" /\ rv) => Len(lp.log) = 2 * Len(lp.plan)
C4_Witness ==
    /\ pc = "long_ret" /\ rv /\ Len(lp.log) = 4
    /\ lp.log[2].type = "end" /\ lp.log[2].idx = 0
    /\ lp.log[3].type = "start" /\ lp.log[3].idx = 1
    /\ lp.log[4].type = "end" /\ lp.log[4].idx = 1
    /\ lp.log[2].time = lp.log[3].time /\ lp.log[3].time = lp.log[4].time

\* C9: a pause consumes nothing of the timeline: measured in unpaused time
\* since the timeline began, every event is emitted no earlier than planned,
\* so no planned interval and no hold is cut short by a pause.
C9_PauseKeepsTimeline == \A i \in DOMAIN lp.log : lp.log[i].u >= lp.log[i].time

\* the pairs one writer of _mark_end leaves, and the pair of a run nobody ended
WriterPairs ==
    {<<"stopped", r>> : r \in StopReasons \cup {WordReason, FinallyReason}}
        \cup {<<"error", r>> : r \in {BaseReason, FaultReason, LostReason}}
        \cup {<<"done", "">>}

\* no _mark_end is between its test and its last write
NoWriterInside ==
    /\ pc \notin {"me_check", "me_wstate", "me_wreason"}
    /\ caller.pc \notin {"me_check", "me_wstate", "me_wreason"}
    /\ wd.pc \notin {"me_check", "me_wstate", "me_wreason"}

\* C5: once an end state Stopped or Error has been recorded with its reason,
\* the recorded pair stays as it is.
C5_EndSticky ==
    (g.rec # <<>> /\ g.rec[1] \in {"stopped", "error"})
        => <<end_state, end_reason>> = g.rec

\* C6: a run whose main loop finished with no stop requested or under way
\* ends Done, and stays Done whatever arrives later.
C6_DoneSticky == g.normalEnd => end_state = "done"

\* C7: the end state is written at most once, and when no writer is inside
\* _mark_end the (end_state, end_reason) pair is the pair of one writer.
C7_SingleWriter ==
    /\ g.writes <= 1
    /\ NoWriterInside => <<end_state, end_reason>> \in WriterPairs

\* C11: when the record is bound to a process and no window of it is found at
\* the start of the run, no pass is begun (no action is dispatched), no input is
\* injected, the stop-word worker is not started and no base rectangle is taken
\* (the virtual desktop is not used); when the run has ended and no stop was
\* requested, the end state is Error with the message of the start check.
C11_FailFastUnbound ==
    env.lost =>
        /\ g.passes = 0 /\ run.idx = 0 /\ g.disp = 0
        /\ held = {} /\ lp.log = <<>> /\ ~lp.on
        /\ wd.pc = "off" /\ ~wd.sw_base
        /\ (pc = "finished" /\ ~stopEv /\ caller.pc = "idle")
              => (end_state = "error" /\ end_reason = LostReason)
C11_Witness ==
    env.lost /\ pc = "finished" /\ end_state = "error" /\ end_reason = LostReason

\* C12: a finite search with on_fail "error" that never finds its word makes
\* exactly search_max_tries attempts in its round, each but the last followed
\* by one retry backoff slept to its end, then records Error with the message
\* that names the word; the run then reaches its terminal state, and when no
\* stop() was called the end state is that Error.
C12_Exhausted == g.fail = "error" /\ CurAction.type = "word"
C12_TriesThenErrorSafe ==
    /\ (pc = "wf_try" /\ g.tries < MaxTries) => g.backs = g.tries
    /\ (pc = "wf_slept" /\ rv) => g.slept = RETRY_DELAY
    /\ C12_Exhausted =>
          /\ g.tries = Max(1, CurAction.search_max_tries)
          /\ g.backs = g.tries - 1
          /\ ~fr.found
          /\ (pc = "finished" /\ caller.calls = 0) =>
                /\ end_state = "error"
                /\ end_reason = WordFailReason(CurAction.word)
C12_TriesThenError ==
    [](C12_TriesThenErrorSafe) /\ (C12_Exhausted ~> pc = "finished")
C12_Witness ==
    /\ pc = "finished" /\ C12_Exhausted /\ caller.calls = 0
    /\ g.tries = 3 /\ g.backs = 2
    /\ end_state = "error" /\ end_reason = WordFailReason("ok")

\* the places of the finite search, of its on-fail policies and fail branch
FinitePlaces ==
    {"wf_top", "wf_round", "wf_for", "wf_try", "wf_slept", "wf_after", "word_err",
     "wf_round_slept", "in_head", "in_paused", "in_wait_ret", "fail_ret", "post_stop"}

\* C13: while the action dispatched last is a text search with search_infinite,
\* whatever its search_max_tries and search_on_fail: no on-fail policy is
\* applied, no fail branch is run, no post mode is applied and no Error is
\* recorded; every attempt after the first comes after a retry backoff slept
\* to its end; and the search is left only with a match or with the cancel
\* signal set.
C13_InSearch ==
    /\ g.passes > 0 /\ run.idx < Len(record.actions) /\ g.last = run.idx
    /\ CurAction.type = "word" /\ CurAction.search_infinite
C13_InfiniteNeverFails ==
    C13_InSearch =>
        /\ g.fail = "" /\ g.post = <<>> /\ end_state # "error"
        /\ pc \notin FinitePlaces
        /\ ~run.restart_from_beginning
        /\ (pc = "wi_paused" /\ g.tries < MaxTries) => g.backs = g.tries
        /\ (pc = "wi_slept" /\ rv) => g.slept = RETRY_DELAY
        /\ pc \in {"word_done", "pass_end", "finally", "emit_finished", "finished"}
              => (fr.found \/ stopEv)
C13_Witness ==
    /\ C13_InSearch /\ pc = "word_done" /\ fr.found /\ ~stopEv
    /\ g.tries > Max(1, CurAction.search_max_tries) + 1
    /\ CurAction.search_on_fail = "error"

\* C14: while the action dispatched last is a finite text search whose
\* on-fail policy is Retry: a round that ends with neither a match nor the
\* cancel signal has made max_tries attempts; every further round starts only
\* after the round backoff was slept to its end; no Error is recorded, no fail
\* branch is run; and the search is left only with a match or with the cancel
\* signal set.
C14_InRetry ==
    /\ g.passes > 0 /\ run.idx < Len(record.actions) /\ g.last = run.idx
    /\ CurAction.type = "word" /\ ~CurAction.search_infinite
    /\ CurAction.search_on_fail \notin {"error", "action"}
C14_RetrySafe ==
    C14_InRetry =>
        /\ end_state # "error" /\ g.post = <<>> /\ g.fail \in {"", "retry"}
        /\ pc \notin {"word_err", "in_head", "in_paused", "in_wait_ret", "fail_ret",
                      "post_stop", "wi_top", "wi_paused", "wi_slept"}
        /\ ~run.restart_from_beginning
        /\ (pc = "wf_after" /\ ~fr.found /\ ~stopEv) =>
              /\ g.tries = Max(1, CurAction.search_max_tries)
              /\ g.backs = g.tries - 1
        /\ (pc = "wf_round_slept" /\ rv) => (g.req = ROUND_DELAY /\ g.slept = ROUND_DELAY)
        /\ pc \in {"word_done", "pass_end", "finally", "emit_finished", "finished"}
              => (fr.found \/ stopEv)
C14_NextRound ==
    (C14_InRetry /\ pc # "wf_top" /\ pc' = "wf_top" /\ g'.fail = "retry") =>
        /\ pc = "wf_round_slept" /\ rv /\ g.slept = ROUND_DELAY
        /\ g.tries = Max(1, CurAction.search_max_tries) /\ ~fr.found
C14_RetryRounds == [](C14_RetrySafe) /\ [][C14_NextRound]_vars
C14_Witness ==
    /\ C14_InRetry /\ pc = "word_done" /\ fr.found /\ ~stopEv
    /\ g.fail = "retry" /\ g.tries = 2 /\ g.backs = 1

\* C15: once the fail branch of an exhausted text search has completed and
\* its post mode is Stop, no further top-level action is dispatched (the
\* action dispatched last stays the failed search, the loop is not entered
\* again), the run ends, and it ends Stopped.
C15_PostStop == g.post # <<>> /\ g.post[1] = "stop"
C15_PostStopSafe ==
    /\ ~(g.since # <<>> /\ g.since[1] = "stop")
    /\ C15_PostStop =>
          /\ g.fail = "action" /\ g.last = g.post[2] /\ run.idx = g.post[2]
          /\ pc \notin {"for_head", "loop_top", "wait_ret", "cycle_ret", "wf_top", "in_head"}
          /\ ~run.restart_from_beginning
          /\ pc \in {"word_done", "pass_end", "finally", "emit_finished", "finished"}
                => (stopEv /\ end_state = "stopped")
C17_Ended ==
    /\ pc \in {"finally", "emit_finished", "finished"}
    /\ ~stopEv /\ caller.calls = 0 /\ g.restarts = 0
C17_PassCount ==
    /\ C17_Ended =>
          /\ ~(record.repeat.enabled /\ record.repeat.count = 0)
          /\ g.passes = IF record.repeat.enabled THEN record.repeat.count ELSE 1
          /\ end_state = "done"
          /\ g.gaps <= g.passes - 1
          /\ (\A d \in DelaySample(record.repeat.delay) : d > 0) => g.gaps = g.passes - 1
    /\ (run.infinite /\ pc \in {"finally", "emit_finished", "finished"}) => stopEv
    /\ g.gaps <= g.passes
    /\ ~record.repeat.enabled => g.gaps = 0
    /\ (pc = "cycle_ret" /\ rv) => (g.req > 0 /\ g.slept = g.req)
C17_Witness ==
    /\ C17_Ended /\ pc = "finished" /\ end_state = "done"
    /\ record.repeat.enabled /\ record.repeat.count = 3
    /\ g.passes = 3 /\ g.gaps = 2 /\ g.disp = 6

\* C18: with repeat enabled and a finite count the remaining-cycles counter
\* is the count less one per pass ended, whether the pass ended at the end of
\* the list or by a restart request of a fail branch: between passes it is
\* count - passes, inside a pass count - passes + 1, never less; and a pass
\* started after a restart request starts at index 0.
C18_Finite == record.repeat.enabled /\ ~run.infinite /\ g.passes > 0
C18_OncePerPass ==
    /\ C18_Finite =>
          /\ run.cycles_left \in {record.repeat.count - g.passes,
                                   record.repeat.count - g.passes + 1}
          /\ pc \in {"loop_top", "cycle_ret"} => run.cycles_left = record.repeat.count - g.passes
          /\ pc \in {"for_head", "pass_end", "word_done", "fail_ret"}
                => run.cycles_left = record.repeat.count - g.passes + 1
          /\ (pc \in {"finally", "emit_finished", "finished"} /\ ~stopEv)
                => run.cycles_left = 0
    /\ g.restarts > 0 => run.start_index = 0
C18_Witness ==
    /\ C18_Finite /\ pc = "for_head" /\ run.idx = 0 /\ env.start_index = 1
    /\ g.restarts = 2 /\ g.passes = 3 /\ record.repeat.count = 3 /\ run.cycles_left = 1

\* C19: when the stop-word worker saw the phrase at a poll, found no end state
\* recorded and recorded ("stopped", the stop-word reason) as the first pair,
\* then a run that has ended, with every stop() and the worker at their end,
\* is Stopped with the reason that names the stop word.
C19_StopWordEnds ==
    (/\ g.rec = <<"stopped", WordReason>>
     /\ pc = "finished" /\ caller.pc = "idle" /\ wd.pc = "ended")
        => (end_state = "stopped" /\ end_reason = WordReason)

\* C20: the two threads are never inside the locked sections together, and
\* every pair (rectangle, scale) the worker has read is the pair of one call
\* of _sw_set_snapshot: the pair of the last call completed when the worker
\* took the lock, hence one of the pairs written.
C20_SnapshotAtomic ==
    /\ ~(sw.m \in {"base", "dpr", "exit"} /\ sw.w \in {"rd_base", "rd_dpr", "exit"})
    /\ sw.w \in {"exit", "got"} =>
          /\ <<sw.b, sw.d>> = sw.at
          /\ <<sw.b, sw.d>> \in sw.written
    /\ sw.m = "out" => <<sw.base, sw.dpr>> = sw.last
C20_Witness ==
    /\ sw.w = "got" /\ <<sw.b, sw.d>> = <<"r1", 2>>
    /\ sw.m = "dpr" /\ sw.arg = <<"r2", 1>> /\ sw.base = "r2" /\ sw.dpr = 2
    /\ <<"r2", 2>> \notin sw.written

\* ---------------------------------------------------------------- C21
\* C21: a record that holds a TextArea or a WaitEvent with a blank search
\* text, at the top level or nested in a fail branch, is rejected before
\* playback starts, so that no run ever executes an action with a blank text.
C21_NoBlankExecuted == ~g.blank

\* the part of C21 that the validation does give: a blank text at the top
\* level never starts a run
C21_TopLevelRejected ==
    (\E i \in DOMAIN record.actions :
        LET a == record.actions[i] IN
        \/ a.type = "word" /\ Strip(a.word) = ""
        \/ a.type = "wait_event" /\ Strip(a.expected_text) = "")
    => pc \in {"ui", "rejected"}

\* ---------------------------------------------------------------- C22
\* the places of the playback thread inside a text search, an event wait or a
\* fail branch
C22_SearchPlaces ==
    {"wi_top", "wi_paused", "wi_slept", "wf_top", "wf_round", "wf_for", "wf_try",
     "wf_backoff", "wf_slept", "wf_after", "wf_round_slept", "word_err", "word_done",
     "fail_ret", "post_stop",
     "in_head", "in_paused", "ia_start", "ia_done", "we_top", "we_paused", "we_slept",
     "nwi_top", "nwf_top", "nwe_top", "nwi_paused", "nwe_paused", "nw_slept",
     "nwf_round", "nwf_for", "nwf_try", "nwf_after", "nwf_round_slept", "nw_stop"}

\* without OCR the resolver is never invoked, no retry or poll loop and no
\* fail branch is entered, and the stop-word worker is not started
C22_NoOcrSafe ==
    ~env.ocr =>
        /\ g.tries = 0 /\ g.backs = 0 /\ g.fail = "" /\ g.sub = <<>>
        /\ wd.pc = "off"
        /\ pc \notin C22_SearchPlaces
        /\ \A i \in DOMAIN stk : stk[i] \notin C22_SearchPlaces

\* without OCR the step of the playback thread at a TextArea or a WaitEvent
\* goes straight to the next action of the pass
C22_NoOcrNext ==
    (/\ ~env.ocr
     /\ (Dispatching("word") \/ Dispatching("wait_event"))
     /\ (pc' # pc \/ run' # run))
    => /\ pc' = "for_head"
       /\ run'.idx = run.idx + 1
       /\ g'.last = run.idx
       /\ end_state' = end_state /\ stopEv' = stopEv

\* C22: when OCR is absent at the start of a run, every TextArea and WaitEvent
\* is skipped without a resolver call and without a retry loop, the stop-word
\* worker is not started, and the run goes on with the next action.
C22_OcrAbsentSkips == [](C22_NoOcrSafe) /\ [][C22_NoOcrNext]_vars

\* a run without OCR, with a stop word configured, has passed a TextArea and
\* two WaitEvents and has ended normally
C22_Witness ==
    /\ ~env.ocr /\ env.stop_word
    /\ pc = "finished" /\ end_state = "done"
    /\ Len(record.actions) = 4 /\ g.last = 3 /\ g.passes = 2
    /\ record.actions[2].type = "word" /\ record.actions[1].type = "wait_event"

\* ---------------------------------------------------------------- C23
\* C23: a run to completion of the record [BaseArea, Area (clicked, left
\* mouse button), Wait(0.2 s)] without repeat emits exactly 2 progress
\* increments, its last progress event has done = total, and it ends Done.
\* (Every done += 1 of run() is followed by progress.emit(done, total), so
\* run.done is the number of progress events and run.total their last total.)
C23_TwoIncrements ==
    (record = SceneRecord /\ pc = "finished" /\ g.normalEnd /\ caller.calls = 0)
    => run.done = 2 /\ run.done = run.total /\ end_state = "done"

\* what the run does give: one progress event, progress.emit(1, 1), and Done
C23_OneIncrement ==
    (record = SceneRecord /\ pc = "finished" /\ g.normalEnd /\ caller.calls = 0)
    => run.done = 1 /\ run.total = 1 /\ end_state = "done"

\* ---------------------------------------------------------------- C24
\* the terminal finished event of a run whose end state Stopped or Error was
\* written once, with no writer of _mark_end under way
C24_AtFinished ==
    /\ pc = "emit_finished" /\ pc' = "finished"
    /\ end_state \in {"stopped", "error"}
    /\ g.writes = 1 /\ NoStopInside

\* C24: whenever a run ends Stopped or Error, a status event that carries the
\* recorded end reason has been emitted by the engine before the terminal
\* finished event.
C24_ReasonReported == [][C24_AtFinished => end_reason \in g.status]_vars

\* what does hold: the reason of an end state Error written by the playback
\* thread is on the status channel before the finished event
C24_ErrorReported ==
    [][(C24_AtFinished /\ end_state = "error") => end_reason \in g.status]_vars

\* ---------------------------------------------------------------- C25
\* a fault was raised inside run(): the import of pynput failed, or the
\* except handler of run() was entered
C25_Faulted == ~env.pynput \/ FaultReason \in g.status

\* C25: a fault raised inside the run and not handled locally, a failed load
\* of the input injection backend and a malformed action entry included, is
\* caught at the top level, reported on the status channel and recorded as
\* end state Error, unless an end state was already recorded.
C25_FaultsEndInError ==
    (pc = "finished" /\ C25_Faulted)
    => /\ g.status \cap {PynputStatus, FaultReason} # {}
       /\ end_state # "done"
       /\ (g.writes = 1 /\ caller.calls = 0 /\ wd.pc \in {"off", "loop"}) => end_state = "error"

\* what does hold: the same for the faults that reach the except handler of
\* run(), a malformed entry and a refused key among them
C25_CaughtEndInError ==
    (pc = "finished" /\ FaultReason \in g.status)
    => /\ end_state # "done"
       /\ (g.writes = 1 /\ caller.calls = 0 /\ wd.pc \in {"off", "loop"}) => end_state = "error"

\* a record with a malformed entry has ended Error with the fault reported
C25_MalformedSeen ==
    /\ pc = "finished" /\ Malformed \in Range(record.actions)
    /\ end_state = "error" /\ end_reason = FaultReason /\ FaultReason \in g.status

\* ---------------------------------------------------------------- C26
\* C26: for every Delay that Delay.from_dict can return (any mode, any numeric
\* a and b, negative ones too) sample() returns a value >= 0; in mode "fixed"
\* with a >= 0 it returns a; in mode "range" it returns a value in
\* [min(a, b), max(a, b)].
C26_SampleInRange ==
    calc.at = "sampled" =>
        /\ calc.out >= 0
        /\ (calc.delay.mode = "fixed" /\ calc.delay.a >= 0) => calc.out = calc.delay.a
        /\ calc.delay.mode = "range" =>
              /\ Min(calc.delay.a, calc.delay.b) <= calc.out
              /\ calc.out <= Max(calc.delay.a, calc.delay.b)

\* what does hold: the same without the lower bound 0 in mode "range"
C26_SampleFixedOrWithin ==
    calc.at = "sampled" =>
        /\ calc.delay.mode \in {"fixed", "range"}
        /\ calc.delay.mode = "fixed" => calc.out = Max(0, calc.delay.a)
        /\ calc.delay.mode = "range" =>
              /\ Min(calc.delay.a, calc.delay.b) <= calc.out
              /\ calc.out <= Max(calc.delay.a, calc.delay.b)

\* ---------------------------------------------------------------- C27
\* the rectangle lies fully inside the base
C27_Inside(b, r) ==
    b.left <= r.left /\ r.right <= b.right /\ b.top <= r.top /\ r.bottom <= b.bottom

\* two integers differ by at most 1
C27_Near(x, y) == x - y \in {-1, 0, 1}

\* C27: for a base rectangle of width and height >= 2 and a rectangle fully
\* inside it, rel_to_rect(base, rect_to_rel(base, rect)) is rect within 1 unit
\* on each edge; and every coordinate rect_to_rel returns is in [0, 1], also
\* for a rectangle that extends beyond the base.
C27_RoundTrip ==
    /\ calc.at \in {"rel", "abs"} =>
          \A k \in {"rx1", "ry1", "rx2", "ry2"} :
              0 <= calc.rel[k][1] /\ calc.rel[k][1] <= calc.rel[k][2] /\ calc.rel[k][2] > 0
    /\ (/\ calc.at = "abs"
        /\ Width(calc.base) >= 2 /\ Height(calc.base) >= 2
        /\ C27_Inside(calc.base, calc.rect))
       => /\ C27_Near(calc.out.left, calc.rect.left)
          /\ C27_Near(calc.out.top, calc.rect.top)
          /\ C27_Near(calc.out.right, calc.rect.right)
          /\ C27_Near(calc.out.bottom, calc.rect.bottom)

\* a rectangle strictly inside a base that does not start at 0 has made the
\* round trip
C27_Witness ==
    /\ calc.at = "abs"
    /\ calc.base = Rect(2, 0, 5, 2)
    /\ calc.rect = Rect(3, 1, 4, 1)
    /\ calc.out = calc.rect
    /\ calc.rel.rx1 = <<1, 3>> /\ calc.rel.rx2 = <<2, 3>>

\* ---------------------------------------------------------------- C28
\* kind "mouse": one of the three buttons; kind "keys": no button
C28_WellFormed(t) ==
    /\ t.kind \in {"mouse", "keys"}
    /\ t.kind = "mouse" => t.mouse_button \in {"left", "middle", "right"}
    /\ t.kind = "keys" => t.mouse_button = "none"

\* C28: every trigger the engine acts on has, with kind mouse, one of the
\* buttons left, middle, right (left when none is given) and, with kind keys,
\* no button; this holds for what normalize_trigger returns and for the Key
\* actions KeyAction.from_dict returns, so that a Key action of kind mouse is
\* always realised as a mouse click and never as a key combination.
C28_TriggersWellFormed ==
    /\ calc.at = "trigger" => C28_WellFormed(calc.out)
    /\ calc.at \in {"action", "realized"} => C28_WellFormed(calc.act)
    /\ (calc.at = "realized" /\ calc.act.kind = "mouse") => calc.how = "click"

\* what does hold: the triggers normalize_trigger returns are well formed,
\* with the button left when none or an unknown one is given
C28_NormalizedWellFormed ==
    calc.at = "trigger" =>
        /\ C28_WellFormed(calc.out)
        /\ (calc.out.kind = "mouse"
            /\ DictGet(calc.arg, "mouse_button", "none") \notin {"left", "middle", "right"})
           => calc.out.mouse_button = "left"

\* ---------------------------------------------------------------- C29
\* the playback thread dispatches the top-level action at run.idx: that index
\* was not dispatched in this pass and is above all that were, it is the
\* start index of the pass plus the number of actions dispatched so far, and
\* no repeat-from-start is pending
C29_TopLevelStep ==
    (pc = "for_head" /\ ~ForLeaves /\ (pc' # pc \/ run' # run \/ g'.disp # g.disp))
    => /\ run.idx \notin g.seen
       /\ \A j \in g.seen : j < run.idx
       /\ run.idx = run.start_index + Cardinality(g.seen)
       /\ ~run.restart_from_beginning
       /\ g'.seen = g.seen \cup {run.idx}
       /\ g'.last = run.idx

\* actions are dispatched nowhere else, and none while a repeat-from-start is
\* pending; a fail branch belongs to the text search dispatched last
C29_NoOtherStep ==
    /\ (g'.seen # g.seen /\ g'.seen # {}) => (pc = "for_head" /\ ~ForLeaves)
    /\ g'.sub # g.sub =>
          /\ ~run.restart_from_beginning
          /\ g'.sub = <<>> \/ (pc = "in_paused" /\ CurAction.type = "word" /\ g.last = run.idx)

\* the actions of a fail branch run in the order of their list
C29_NestedOrder == \A i \in DOMAIN g.sub : g.sub[i] = i

\* C29: within one pass the top-level actions are dispatched in strictly
\* increasing index order, each at most once, from the start index of the
\* pass; the only deviations are a fail branch, which runs its nested actions
\* in their own list order before control returns, and a repeat-from-start
\* request, which ends the pass.
C29_ListOrder ==
    [](C29_NestedOrder) /\ [][C29_TopLevelStep /\ C29_NoOtherStep]_vars

\* in the second pass of a record of four actions the fail branch of the
\* second action has run its three nested actions and the third is next
C29_Witness ==
    /\ g.passes = 2 /\ g.seen = {0, 1} /\ g.sub = <<1, 2, 3>>
    /\ pc = "for_head" /\ run.idx = 2 /\ ~stopEv

\* ---------------------------------------------------------------- C30
\* no top-level and no nested action is dispatched and no resolver attempt
\* is made in this step
C30_NoDispatch ==
    g'.disp = g.disp /\ g'.seen = g.seen /\ g'.sub = g.sub /\ g'.tries = g.tries

\* C30: once the cancel signal is set the engine dispatches no further
\* top-level or nested action, starts no new resolver attempt and begins no
\* new key or button press; it only releases what is down and unwinds.
C30_CancelOnlyUnwinds == [][stopEv => (held' \subseteq held /\ C30_NoDispatch)]_vars

\* ------------------------------------------------------------------ C31
\* C31: in a record bound to a process the base rectangle is never the one
\* stored in a BaseArea action: every BaseArea executed, at the top level or in
\* a fail branch, sets the base to the live window
C31_NoStoredBase == BoundExe => run.base_area # "stored"

\* the top-level BaseArea of a bound record does so: it leaves the live window
\* as the base, or goes to record the Error end when the window is gone
C31_TopLevelLive ==
    [][(Dispatching("base") /\ BoundExe /\ pc' # pc) =>
          IF env.bound
          THEN pc' = "me_check" /\ fr'.me_state = "error"
          ELSE run'.base_area = "live"]_vars

\* ------------------------------------------------------------------ C32
\* the index a pass starts at
C32_PassStarts == pc = "loop_top" /\ pc' = "for_head"

\* C32: every pass of a run starts at the start index given to the engine (0
\* when that index is negative or not below the number of actions), until a
\* fail branch with post mode Repeat has restarted the run; every pass after
\* that starts at index 0
C32_PassStartIndex ==
    [][C32_PassStarts =>
          run'.idx = IF g.restarts > 0 \/ env.start_index < 0
                        \/ env.start_index >= Len(record.actions)
                     THEN 0 ELSE env.start_index]_vars

\* a third pass of a run given the start index 1 has started at index 1
C32_Witness ==
    /\ pc = "for_head" /\ g.passes = 3 /\ g.restarts = 0
    /\ env.start_index = 1 /\ run.idx = 1 /\ g.seen = {}

\* ------------------------------------------------------------------ C33
\* the inputs _press_hold_trigger puts down for a trigger
C33_Inputs(t) ==
    IF t.kind = "mouse" THEN Range(SortedMods(t.keys)) \cup {t.mouse_button}
    ELSE Range(Downs(t.keys))

\* the items between their begin event and their end event
C33_Active == {i \in lp.active : lp.on}

\* C33: while the long-press timeline runs (no cancel, no refused key), the
\* inputs of every item that has begun and not ended are down, whatever other
\* items have ended meanwhile
C33_HoldsKept ==
    (~stopEv /\ ~lp.exc /\ env.bad = "none") =>
        \A i \in C33_Active : C33_Inputs(lp.plan[i + 1].trigger) \subseteq held

\* ------------------------------------------------------------------ C34
\* the matches of pass p are enough for the expected count
C34_Enough(p) == p # <<>> /\ (calc.count <= 0 \/ Len(p) >= calc.count)

\* r is the n-th of the matches p in reading order (top to bottom, then left
\* to right), the last one when n is above their number
C34_Nth(r, p, n) ==
    LET i == Min(Max(n, 1), Len(p)) IN
    /\ \E j \in DOMAIN p : p[j] = r
    /\ Cardinality({j \in DOMAIN p : VisualBefore(p[j], r)}) < i
    /\ i <= Cardinality({j \in DOMAIN p : ~VisualBefore(r, p[j])})

\* C34: the resolver returns the occurrenceIndex-th match of the pass in
\* reading order, the last one when the index is above the number of matches,
\* and takes no match from a pass that found fewer than expectedCount matches
\* (no match at all when no pass found enough)
C34_Selected ==
    calc.at = "resolved" =>
        LET ok == {k \in DOMAIN calc.passes : C34_Enough(calc.passes[k])} IN
        IF ok = {} THEN calc.out = <<>>
        ELSE LET k == CHOOSE x \in ok : \A y \in ok : x <= y IN
             /\ calc.out # <<>>
             /\ C34_Nth(calc.out[1], calc.passes[k], calc.index)

\* two matches were found where three are expected: none is returned
C34_Witness ==
    /\ calc.at = "resolved" /\ calc.count = 3 /\ calc.index = 1
    /\ Len(calc.passes[1]) = 2 /\ calc.passes[2] = <<>> /\ calc.out = <<>>

\* the third in reading order of three matches is not the third by score
C34_WitnessOrder ==
    /\ calc.at = "resolved" /\ calc.count = 1 /\ calc.index = 3
    /\ calc.passes[1] = <<Match(1, 0, 1, 2), Match(0, 2, 3, 2), Match(0, 0, 1, 1)>>
    /\ calc.out = <<Match(1, 0, 1, 2)>>

\* ------------------------------------------------------------------ C36
\* C36: a candidate whose normalized text is the normalized target passes the
\* length and similarity filters, whatever the length of the target
C36_IdenticalAccepted ==
    (calc.at = "judged" /\ calc.cand = calc.target) => calc.out

\* it does so for the targets of four characters and more
C36_IdenticalFromFour ==
    (calc.at = "judged" /\ calc.cand = calc.target /\ Len(calc.target) >= 4) => calc.out

\* ... and an accepted candidate has MIN_LEN characters, four or more
C36_AcceptedLong ==
    (calc.at = "judged" /\ calc.out) => Len(calc.cand) >= 4

\* ------------------------------------------------------------------ C35
\* C35: no step of a run changes the record (its actions with their fail
\* branches, its repeat settings) or the binding of the player to a process
C35_RecordReadOnly == [][record' = record /\ env' = env]_vars

\* a run of three cycles has ended after a fail branch restarted it: the
\* cycles were counted down, and the record still says three
C35_Witness ==
    /\ pc = "finished" /\ record.repeat.enabled /\ record.repeat.count = 3
    /\ run.cycles_left = 0 /\ g.restarts > 0 /\ g.fail = "action"

\* ------------------------------------------------------------------ C37
\* C37: after the finished event of the run the stop-word worker only ends:
\* it finds no text, enters no _mark_end and emits no status
C37_WatchdogEnds == [][pc = "finished" => (wd'.pc = wd.pc \/ wd'.pc = "ended")]_vars

\* the worker of a run that was stopped has ended by the time, or ends
\* without another lookup
C37_StoppedWorkerEnds ==
    [][(pc = "finished" /\ stopEv /\ wd.pc = "loop") => (wd'.pc \in {"loop", "ended"})]_vars

\* the same of a worker that is between two lookups when the run finishes
C37_IdleWorkerEnds ==
    [][(pc = "finished" /\ wd.pc = "loop") => (wd'.pc \in {"loop", "ended"})]_vars

\* ------------------------------------------------------------------ C38
\* C38: every progress event carries done <= total (progress.emit(done, total)
\* follows each done += 1)
C38_DoneWithinTotal == [][run'.done # run.done => run'.done <= run'.total]_vars

\* within the first pass of a run it does
C38_FirstPassWithin == [][(run'.done # run.done /\ g.passes <= 1) => run'.done <= run'.total]_vars

\* ------------------------------------------------------------------ C39
\* C39: a run emits the finished event exactly once, whatever way it ends:
\* never more than once, and once when run() has returned
C39_FinishedOnce == g.finished <= 1 /\ (pc = "finished" => g.finished = 1)

\* it does when the backend was loaded and the bound window found at the start
C39_OnceAfterStart == (env.pynput /\ ~env.lost) => C39_FinishedOnce

\* ------------------------------------------------------------------ C40
\* a pass of a record with repeat disabled ends with a request to repeat from
\* the start, and no cancel
C40_Request ==
    pc = "pass_end" /\ ~record.repeat.enabled /\ ~stopEv /\ run.restart_from_beginning

\* the run of such a record goes to its end with no cancel and nothing recorded
C40_EndsDone ==
    /\ ~record.repeat.enabled /\ pc # "finally" /\ pc' = "finally"
    /\ ~stopEv /\ end_state = "done"

\* C40: with repeat disabled every request to repeat from the start is
\* followed at once, with no delay between the cycles, by a new pass from index
\* 0, however many came before; the run ends Done only from the end of a pass
\* that reached the end of the list with no such request
C40_RestartsUnbounded ==
    [][/\ (C40_Request /\ pc' # pc) =>
             (pc' = "loop_top" /\ g'.gaps = g.gaps /\ run'.start_index = 0)
       /\ (C32_PassStarts /\ ~record.repeat.enabled /\ g.restarts > 0) => run'.idx = 0
       /\ C40_EndsDone =>
             (pc = "pass_end" /\ ~run.restart_from_beginning
                /\ run.idx >= Len(record.actions))]_vars

\* a fourth pass from index 0, after three requests, of a record with repeat
\* disabled (count 0)
C40_Witness ==
    /\ ~record.repeat.enabled /\ record.repeat.count = 0
    /\ pc = "for_head" /\ run.idx = 0 /\ g.seen = {}
    /\ g.restarts = 3 /\ g.passes = 4 /\ g.gaps = 0 /\ ~stopEv

====
